---- MODULE Spec2Model ----
(***************************************************************************)
(* A model of the SNFG glyph renderer of the reglycosylation plugin        *)
(* (src/reglyco_interface_plugin/snfg.py): the vector utilities, the       *)
(* per-residue frame estimator get_residue_orientation, the shape          *)
(* generators and the driver render_snfg with the host's object sink; and  *)
(* of the window registry and the JavaScript bridge of the interface       *)
(* (src/reglyco_interface_plugin/reglyco_interface.py).                    *)
(*                                                                         *)
(* Numbers.  A vector is a record [d, e, q] standing for the real vector   *)
(*     d * 10^(-e) / sqrt(q)      (d an integer triple, q > 0)             *)
(* so that v / norm(v) is exact: it is d / sqrt(d.d).  Atom coordinates    *)
(* and lengths are integers in units of 1/LenUnit Angstrom; colours are    *)
(* integers in units of 1/255; the entries of a rotation matrix are        *)
(* integers in units of 1/MatUnit.                                         *)
(***************************************************************************)
EXTENDS Integers, Sequences, FiniteSets, TLC

VARIABLES
    structure,   \* the host's atoms: a sequence of [chain, resi, resn, name, coord]
    ignoreCase,  \* host setting: selection keywords match names case-insensitively
    svdSign,     \* sign convention of the host's SVD routine for the last row of vh
    cgoAttrs,    \* the opcodes the host's cgo module defines
    sink,        \* the host's objects: name -> sequence of loaded primitive lists
    last,        \* record of the most recent render_snfg call
    ncalls,      \* number of render_snfg calls made
    dirty,       \* the structure was edited since the most recent call
    pc,          \* position of the pure-function specifications
    vin,         \* normalize_vector: input; loop body: the table entry and arguments
    vout,        \* normalize_vector: output; loop body: the accumulators after it;
                 \* get_residue_orientation: the plane normal used for each residue
    orient,      \* get_residue_orientation: output; loop body: the frame it is given
    INSTANCES,   \* reglyco_interface.py: the registry of window instances, key -> window
    windows,     \* the HtmlInterfaceWindow objects constructed so far, in order
    event        \* the most recent call or Qt event of the interface, and what it did

vars == <<structure, ignoreCase, svdSign, cgoAttrs, sink, last, ncalls, dirty,
          pc, vin, vout, orient, INSTANCES, windows, event>>

-----------------------------------------------------------------------------
(* Bounds of the model *)

\* normalize_vector is tried on integer triples with components in -NormRange..NormRange
NormRange == 6

\* at most this many render_snfg calls in one behaviour
MaxCalls == 2

(* Units *)
LenUnit == 600
MatUnit == 1000

-----------------------------------------------------------------------------
(* Integer helpers *)

Abs(n) == IF n < 0 THEN -n ELSE n

Sgn(n) == IF n < 0 THEN -1 ELSE IF n > 0 THEN 1 ELSE 0

RECURSIVE Gcd(_, _)
Gcd(a, b) == IF b = 0 THEN a ELSE Gcd(b, a % b)

Gcd3(t) == Gcd(Gcd(Abs(t[1]), Abs(t[2])), Abs(t[3]))

RECURSIVE Pow10(_)
Pow10(k) == IF k = 0 THEN 1 ELSE 10 * Pow10(k - 1)

CeilDiv(a, b) == (a + b - 1) \div b

\* a list built by a rule, as the tuple of its elements
List(s) == s \o <<>>

\* floor of the square root, by bisection on lo..hi
RECURSIVE IsqrtIn(_, _, _)
IsqrtIn(n, lo, hi) ==
    IF lo >= hi THEN lo
    ELSE LET mid == (lo + hi + 1) \div 2
         IN  IF mid * mid <= n THEN IsqrtIn(n, mid, hi) ELSE IsqrtIn(n, lo, mid - 1)

Isqrt(n) == IsqrtIn(n, 0, 46340)

\* a * 10^k < b for naturals a, b below 2^31, without overflow
LtPow10(a, k, b) ==
    IF a = 0 THEN b > 0
    ELSE IF k >= 10 THEN FALSE
    ELSE a < CeilDiv(b, Pow10(k))

-----------------------------------------------------------------------------
(* Triples and vectors *)

Dot3(a, b) == a[1] * b[1] + a[2] * b[2] + a[3] * b[3]

Cross3(a, b) == << a[2] * b[3] - a[3] * b[2],
                   a[3] * b[1] - a[1] * b[3],
                   a[1] * b[2] - a[2] * b[1] >>

Add3(a, b) == << a[1] + b[1], a[2] + b[2], a[3] + b[3] >>

Sub3(a, b) == << a[1] - b[1], a[2] - b[2], a[3] - b[3] >>

Scale3(k, a) == << k * a[1], k * a[2], k * a[3] >>

Div3(a, k) == << a[1] \div k, a[2] \div k, a[3] \div k >>

Zero3 == <<0, 0, 0>>

\* the integer triple t as a vector in Angstrom-free units (t itself)
Vec(t) == [d |-> t, e |-> 0, q |-> 1]

\* a coordinate difference p (units of 1/LenUnit) as a vector in Angstrom
LenVec(p) == [d |-> p, e |-> 0, q |-> LenUnit * LenUnit]

\* np.linalg.norm(v) < 10^(-k)
NormBelow(v, k) ==
    LET n2 == Dot3(v.d, v.d)
    IN  IF n2 = 0 THEN TRUE
        ELSE IF v.e >= k
             THEN \* n2 < q * 10^(2e-2k)
                  IF 2 * (v.e - k) >= 10 THEN TRUE
                  ELSE (n2 \div Pow10(2 * (v.e - k))) < v.q
             ELSE \* n2 * 10^(2k-2e) < q
                  LtPow10(n2, 2 * (k - v.e), v.q)

\* |v| = 1 exactly
IsUnit(v) == v.e = 0 /\ Dot3(v.d, v.d) = v.q

\* a and b are parallel and point the same way (b nonzero)
SameDirection(a, b) == Cross3(a.d, b.d) = Zero3 /\ Dot3(a.d, b.d) > 0

default_x == Vec(<<1, 0, 0>>)
default_y == Vec(<<0, 1, 0>>)
default_z == Vec(<<0, 0, 1>>)

-----------------------------------------------------------------------------
(* normalize_vector, snfg.py 24-32 *)

\* the degeneracy test of a slip: an exact comparison with zero
normalize_vector_eqzero(v) ==
    IF Dot3(v.d, v.d) = 0
    THEN default_z
    ELSE LET g == Gcd3(v.d)
             u == Div3(v.d, g)
         IN  [d |-> u, e |-> 0, q |-> Dot3(u, u)]

normalize_vector(v) ==
    IF NormBelow(v, 9)
    THEN default_z
    ELSE \* v / norm: the direction of d, of length one
         LET g == Gcd3(v.d)
             u == Div3(v.d, g)
         IN  [d |-> u, e |-> 0, q |-> Dot3(u, u)]

-----------------------------------------------------------------------------
(* The atoms of the host and the dictionaries of get_residue_orientation *)

required_atoms == <<"C1", "C2", "C3", "C4", "C5", "O5">>
plane_atoms == <<"C1", "C2", "C3", "C4", "C5">>

SeqToSet(s) == {s[i] : i \in 1..Len(s)}

res_key(atom) == <<atom.chain, atom.resi, atom.resn>>

\* a slip: the name test of line 52 guards only the coordinate, so that any
\* atom of a residue enters its key
RECURSIVE residue_keys_anyatom(_)
residue_keys_anyatom(atoms) ==
    IF atoms = <<>> THEN <<>>
    ELSE LET n == Len(atoms)
             front == residue_keys_anyatom(SubSeq(atoms, 1, n - 1))
         IN  IF res_key(atoms[n]) \notin SeqToSet(front)
             THEN Append(front, res_key(atoms[n]))
             ELSE front

\* the keys of residue_atoms in insertion order: a key enters at the first atom
\* of its residue whose name is a required atom
RECURSIVE residue_keys(_)
residue_keys(atoms) ==
    IF atoms = <<>> THEN <<>>
    ELSE LET n == Len(atoms)
             front == residue_keys(SubSeq(atoms, 1, n - 1))
             a == atoms[n]
         IN  IF a.name \in SeqToSet(required_atoms) /\ res_key(a) \notin SeqToSet(front)
             THEN Append(front, res_key(a))
             ELSE front

\* residue_atoms[key]: atom name -> coordinate; a later atom of the same name
\* overwrites an earlier one
residue_atoms(atoms, key) ==
    LET idx(nm) == {i \in 1..Len(atoms) : res_key(atoms[i]) = key /\ atoms[i].name = nm}
        names == {nm \in SeqToSet(required_atoms) : idx(nm) # {}}
    IN  [nm \in names |->
            atoms[CHOOSE i \in idx(nm) : \A j \in idx(nm) : j <= i].coord]

\* [atoms[name] for name in names if name in atoms]
RECURSIVE coords_of(_, _)
coords_of(ratoms, names) ==
    IF names = <<>> THEN <<>>
    ELSE LET rest == coords_of(ratoms, Tail(names))
         IN  IF Head(names) \in DOMAIN ratoms
             THEN <<ratoms[Head(names)]>> \o rest
             ELSE rest

RECURSIVE Sum3(_)
Sum3(ps) == IF ps = <<>> THEN Zero3 ELSE Add3(Head(ps), Sum3(Tail(ps)))

\* np.mean(coords, axis=0)
mean(ps) == Div3(Sum3(ps), Len(ps))

-----------------------------------------------------------------------------
(* get_residue_orientation, snfg.py 34-160 *)

\* np.cross of two unit vectors
CrossV(u, v) == [d |-> Cross3(u.d, v.d), e |-> 0, q |-> u.q * v.q]

\* np.abs(np.dot(u, v)) > num/den for unit vectors u, v: with a = (u.d . v.d)^2
\* and b = u.q * v.q it is  a/b > num^2/den^2,  that is
\* (b - a) * den^2 < (den^2 - num^2) * b, computed without overflow
AbsDotAbove(u, v, num, den) ==
    LET p == Dot3(u.d, v.d)
        a == p * p
        b == u.q * v.q
        D == den * den
        N == D - num * num
    IN  (b - a) < N * (b \div D) + CeilDiv(N * (b % D), D)

\* the shortest integer triple along t
Prim(t) == IF t = Zero3 THEN t ELSE Div3(t, Gcd3(t))

\* np.linalg.matrix_rank of the rows (integer triples), exactly; the rank does
\* not change when a row is rescaled
matrix_rank(rws) ==
    LET I == 1..Len(rws)
        rows == List([i \in I |-> Prim(rws[i])])
    IN  IF \A i \in I : rows[i] = Zero3 THEN 0
        ELSE IF \A i, j \in I : Cross3(rows[i], rows[j]) = Zero3 THEN 1
        ELSE IF \A i, j, k \in I : Dot3(Cross3(rows[i], rows[j]), rows[k]) = 0 THEN 2
        ELSE 3

\* the last row of vh of np.linalg.svd(rows) for rows of rank 2: the unit
\* normal of the plane the rows span, up to the sign the routine settles on
svd_last_row(rws, sign) ==
    LET I == 1..Len(rws)
        rows == List([i \in I |-> Prim(rws[i])])
        pr == CHOOSE ij \in I \X I :
                 /\ Cross3(rows[ij[1]], rows[ij[2]]) # Zero3
                 /\ \A kl \in I \X I :
                       Cross3(rows[kl[1]], rows[kl[2]]) # Zero3
                          => (ij[1] < kl[1] \/ (ij[1] = kl[1] /\ ij[2] <= kl[2]))
        c == Cross3(rows[pr[1]], rows[pr[2]])
        g == Gcd3(c)
        u == Scale3(sign, Div3(c, g))
    IN  [d |-> u, e |-> 0, q |-> Dot3(u, u)]

\* the rows have an exact plane: the model computes the SVD of rank <= 2 only
HasExactPlane(rows) == matrix_rank(rows) <= 2

\* np.isnan(v).any(): the coordinates of the model are finite numbers
isnan(v) == FALSE

Frame(resn, center, x_axis, y_axis, z_axis) ==
    [resn |-> resn, center |-> center,
     x_axis |-> x_axis, y_axis |-> y_axis, z_axis |-> z_axis]

\* a slip: a plane is fitted only to four or more atoms
plane_normal_of_min4(ratoms, sign) ==
    LET plane_coords == coords_of(ratoms, plane_atoms)
    IN  IF Len(plane_coords) < 4 THEN default_z
        ELSE LET plane_center == mean(plane_coords)
                 centered == List([i \in 1..Len(plane_coords) |->
                                      Sub3(plane_coords[i], plane_center)])
             IN  IF matrix_rank(centered) < 2 THEN default_z
                 ELSE normalize_vector(svd_last_row(centered, sign))

\* step 3, lines 95-122
plane_normal_of(ratoms, sign) ==
    LET plane_coords == coords_of(ratoms, plane_atoms)
    IN  IF Len(plane_coords) < 3 THEN default_z
        ELSE LET plane_center == mean(plane_coords)
                 centered == List([i \in 1..Len(plane_coords) |->
                                      Sub3(plane_coords[i], plane_center)])
             IN  IF matrix_rank(centered) < 2 THEN default_z
                 ELSE normalize_vector(svd_last_row(centered, sign))

\* a slip: the arbitrary vector is global Y whatever Z is
xy_axes_tempy(plane_normal, z_axis) ==
    IF AbsDotAbove(plane_normal, z_axis, 199, 200)
    THEN LET y_axis == normalize_vector(CrossV(z_axis, default_y))
             x_axis == normalize_vector(CrossV(y_axis, z_axis))
         IN  <<x_axis, y_axis>>
    ELSE LET x_axis == normalize_vector(CrossV(plane_normal, z_axis))
             y_axis == normalize_vector(CrossV(z_axis, x_axis))
         IN  <<x_axis, y_axis>>

\* step 4 with the operands of the cross product for X exchanged
xy_axes_swapped(plane_normal, z_axis) ==
    IF AbsDotAbove(plane_normal, z_axis, 199, 200)
    THEN LET temp_vec == IF AbsDotAbove(default_x, z_axis, 99, 100)
                         THEN default_y ELSE default_x
             y_axis == normalize_vector(CrossV(z_axis, temp_vec))
             x_axis == normalize_vector(CrossV(z_axis, y_axis))
         IN  <<x_axis, y_axis>>
    ELSE LET x_axis == normalize_vector(CrossV(z_axis, plane_normal))
             y_axis == normalize_vector(CrossV(z_axis, x_axis))
         IN  <<x_axis, y_axis>>

\* step 4 with the cross product for X left as it is, not normalized
xy_axes_unnormalized(plane_normal, z_axis) ==
    IF AbsDotAbove(plane_normal, z_axis, 199, 200)
    THEN LET temp_vec == IF AbsDotAbove(default_x, z_axis, 99, 100)
                         THEN default_y ELSE default_x
             y_axis == normalize_vector(CrossV(z_axis, temp_vec))
             x_axis == normalize_vector(CrossV(y_axis, z_axis))
         IN  <<x_axis, y_axis>>
    ELSE LET x_axis == CrossV(plane_normal, z_axis)
             y_axis == normalize_vector(CrossV(z_axis, x_axis))
         IN  <<x_axis, y_axis>>

\* step 4, lines 125-148: <<x_axis, y_axis>>
xy_axes(plane_normal, z_axis) ==
    IF AbsDotAbove(plane_normal, z_axis, 199, 200)
    THEN LET temp_vec == IF AbsDotAbove(default_x, z_axis, 99, 100)
                         THEN default_y ELSE default_x
             y_axis == normalize_vector(CrossV(z_axis, temp_vec))
             x_axis == normalize_vector(CrossV(y_axis, z_axis))
         IN  <<x_axis, y_axis>>
    ELSE LET x_axis == normalize_vector(CrossV(plane_normal, z_axis))
             y_axis == normalize_vector(CrossV(z_axis, x_axis))
         IN  <<x_axis, y_axis>>

\* lines 150-157: the frame of the computed axes xy = <<x_axis, y_axis>>
frame_of_axes(resn, center, xy, z_axis) ==
    IF isnan(xy[1]) \/ isnan(xy[2]) \/ isnan(z_axis)
    THEN Frame(resn, center, default_x, default_y, default_z)
    ELSE Frame(resn, center, xy[1], xy[2], z_axis)

\* lines 86-92: Z points from the center to C4
z_axis_of(coord_C4, center) ==
    IF NormBelow(LenVec(Sub3(coord_C4, center)), 6) THEN default_z
    ELSE normalize_vector(LenVec(Sub3(coord_C4, center)))

\* lines 95-157, given Z
frame_of_z(resn, center, ratoms, sign, z_axis) ==
    frame_of_axes(resn, center, xy_axes(plane_normal_of(ratoms, sign), z_axis), z_axis)

\* a slip: the C4 test of line 80 is dropped and a missing C4 reads as the origin
frame_at_noC4test(resn, center, ratoms, sign) ==
    frame_of_z(resn, center, ratoms, sign,
               z_axis_of(IF "C4" \in DOMAIN ratoms THEN ratoms["C4"] ELSE Zero3, center))

\* lines 79-157, given the center
frame_at(resn, center, ratoms, sign) ==
    IF "C4" \notin DOMAIN ratoms
    THEN Frame(resn, center, default_x, default_y, default_z)
    ELSE frame_of_z(resn, center, ratoms, sign, z_axis_of(ratoms["C4"], center))

\* a slip: the best-guess center of line 73 is left out
frame_of_few_origin(resn, available_coords) ==
    Frame(resn, Zero3, default_x, default_y, default_z)

\* lines 64-76: fewer than three of the ring atoms
frame_of_few(resn, available_coords) ==
    Frame(resn, IF available_coords # <<>> THEN mean(available_coords) ELSE Zero3,
          default_x, default_y, default_z)

\* lines 61-157, given the coordinates of the ring atoms the residue has
frame_of_coords(resn, ratoms, sign, center_coords) ==
    IF Len(center_coords) < 3
    THEN frame_of_few(resn, coords_of(ratoms, required_atoms))
    ELSE frame_at(resn, mean(center_coords), ratoms, sign)

\* a slip: the center taken over the plane atoms C1-C5, without O5
residue_orientation_planecenter(resn, ratoms, sign) ==
    frame_of_coords(resn, ratoms, sign, coords_of(ratoms, plane_atoms))

\* the body of the loop over residue_atoms.items(), lines 59-157
residue_orientation(resn, ratoms, sign) ==
    frame_of_coords(resn, ratoms, sign, coords_of(ratoms, required_atoms))

\* list(orientations.values()): one frame per key of residue_atoms, in
\* insertion order
get_residue_orientation(atoms, sign) ==
    LET keys == residue_keys(atoms)
    IN  List([i \in 1..Len(keys) |->
                 residue_orientation(keys[i][3], residue_atoms(atoms, keys[i]), sign)])

\* the value of plane_normal at line 125 for each key of residue_atoms; <<>>
\* for a residue that left the loop body at line 75 or 83, before step 3
plane_normals(atoms, sign) ==
    LET keys == residue_keys(atoms)
        normal(ratoms) ==
            IF Len(coords_of(ratoms, required_atoms)) < 3 \/ "C4" \notin DOMAIN ratoms
            THEN <<>>
            ELSE plane_normal_of(ratoms, sign)
    IN  List([i \in 1..Len(keys) |-> normal(residue_atoms(atoms, keys[i]))])

-----------------------------------------------------------------------------
(* Colours (units of 1/255), snfg.py 8-22 *)

SNFG_WHITE == <<255, 255, 255>>
SNFG_BLUE == <<0, 144, 188>>
SNFG_GREEN == <<0, 166, 81>>
SNFG_YELLOW == <<255, 212, 0>>
SNFG_LIGHT_BLUE == <<143, 204, 233>>
SNFG_PINK == <<246, 158, 161>>
SNFG_PURPLE == <<165, 67, 153>>
SNFG_BROWN == <<161, 122, 77>>
SNFG_ORANGE == <<244, 121, 32>>
SNFG_RED == <<237, 28, 36>>

AXIS_X_COLOR == <<255, 0, 0>>
AXIS_Y_COLOR == <<0, 255, 0>>
AXIS_Z_COLOR == <<0, 0, 255>>

-----------------------------------------------------------------------------
(* Rotation and transformation, snfg.py 163-205 *)

\* a / b rounded to the nearest integer, halves away from zero (b > 0)
RoundDiv(a, b) == Sgn(a) * ((Abs(a) + b \div 2) \div b)

\* the components of a unit vector in units of 1/MatUnit
Fixed(u) ==
    LET c(i) == Sgn(u.d[i]) * Isqrt((u.d[i] * u.d[i] * MatUnit * MatUnit) \div u.q)
    IN  <<c(1), c(2), c(3)>>

\* np.array([x_axis, y_axis, z_axis]).T of the normalized axes: the columns
\* are the axes; given here as the triple of columns
get_transformation_matrix(x_axis, y_axis, z_axis) ==
    << Fixed(normalize_vector(x_axis)),
       Fixed(normalize_vector(y_axis)),
       Fixed(normalize_vector(z_axis)) >>

\* a slip: the second and third component of v exchanged
MatVec_yz(rotation_matrix, v) ==
    LET c(i) == rotation_matrix[1][i] * v[1] + rotation_matrix[2][i] * v[3]
                   + rotation_matrix[3][i] * v[2]
    IN  <<c(1), c(2), c(3)>>

\* np.dot(rotation_matrix, v), in units of 1/MatUnit of the units of v
MatVec(rotation_matrix, v) ==
    LET c(i) == rotation_matrix[1][i] * v[1] + rotation_matrix[2][i] * v[2]
                   + rotation_matrix[3][i] * v[3]
    IN  <<c(1), c(2), c(3)>>

transform_vertex(v, center, rotation_matrix) ==
    LET v_rot == MatVec(rotation_matrix, v)
    IN  Add3(<<RoundDiv(v_rot[1], MatUnit), RoundDiv(v_rot[2], MatUnit),
               RoundDiv(v_rot[3], MatUnit)>>, center)

transform_vertices(vertices, center, rotation_matrix) ==
    List([k \in 1..Len(vertices) |-> transform_vertex(vertices[k], center, rotation_matrix)])

\* normals are given as vectors; the rotated normal is normalized again
transform_normals(normals, rotation_matrix) ==
    List([k \in 1..Len(normals) |->
        normalize_vector([d |-> MatVec(rotation_matrix, normals[k].d), e |-> 0,
                          q |-> normals[k].q * MatUnit * MatUnit])])

-----------------------------------------------------------------------------
(* Primitive lists: a sequence of opcodes, each with its operands *)

Tok(op, args) == <<op, args>>

COLOR(c) == Tok("COLOR", c)
VERTEX(v) == Tok("VERTEX", v)
NORMAL(n) == Tok("NORMAL", <<n.d[1], n.d[2], n.d[3], n.q>>)
BEGIN(mode) == Tok("BEGIN", <<mode>>)
END == Tok("END", <<>>)

\* the attributes of the cgo module each generator reads
AllOps == {"COLOR", "SPHERE", "CONE", "CYLINDER", "BEGIN", "END", "NORMAL", "VERTEX",
           "TRIANGLES", "TRIANGLE_FAN", "TRIANGLE_STRIP"}

\* x * num / den for a length x
Mul(x, num, den) == RoundDiv(x * num, den)

\* cos and sin of k * 36 degrees, in units of 1/10000
Cos36 == <<10000, 8090, 3090, -3090, -8090, -10000, -8090, -3090, 3090, 8090>>
Sin36 == <<0, 5878, 9511, 9511, 5878, 0, -5878, -9511, -9511, -5878>>

-----------------------------------------------------------------------------
(* Shape generators, snfg.py 209-441 *)

cgo_sphere(center, size, color) ==
    << COLOR(color),
       Tok("SPHERE", <<center[1], center[2], center[3], Mul(size, 13, 10)>>) >>

\* lines 284-287
cone_cgo(vertices, r, color) ==
    << COLOR(color),
       Tok("CONE", vertices[1] \o vertices[2] \o <<0, r>> \o color \o color
                      \o <<1, 1>>) >>

cgo_cone(center, r, color, x_axis, y_axis, z_axis) ==
    cone_cgo(transform_vertices(<< <<0, 0, r>>, <<0, 0, -r>> >>, center,
                                get_transformation_matrix(x_axis, y_axis, z_axis)),
             r, color)

\* lines 216-228: angle i * 72 degrees is entry 2 * i of the tables, and 36
\* degrees more the entry after it
outer_points_local(r) ==
    List([i \in 1..5 |-> << Mul(r, Cos36[2 * (i - 1) + 1], 10000), 0,
                            Mul(r, Sin36[2 * (i - 1) + 1], 10000) >>])

inner_points_local(r_inner) ==
    List([i \in 1..5 |-> << Mul(r_inner, Cos36[2 * (i - 1) + 2], 10000), 0,
                            Mul(r_inner, Sin36[2 * (i - 1) + 2], 10000) >>])

volume_points_local(r) == << <<0, Mul(r, 6, 10), 0>>, <<0, -Mul(r, 6, 10), 0>> >>

\* lines 246-247: the vertices of one fan, from outer and inner point i on
RECURSIVE star_fan(_, _, _)
star_fan(i, outer_points, inner_points) ==
    IF i > 5 THEN <<>>
    ELSE <<VERTEX(outer_points[i]), VERTEX(inner_points[i])>>
         \o star_fan(i + 1, outer_points, inner_points)

\* a slip: the fans are left open, without the first outer point again
star_cgo_open(color, outer_points, inner_points, volume_points, normal_front, normal_back) ==
    <<COLOR(color)>>
    \o <<BEGIN("TRIANGLE_FAN"), NORMAL(normal_front), VERTEX(volume_points[1])>>
    \o star_fan(1, outer_points, inner_points) \o <<END>>
    \o <<BEGIN("TRIANGLE_FAN"), NORMAL(normal_back), VERTEX(volume_points[2])>>
    \o star_fan(1, outer_points, inner_points) \o <<END>>

\* lines 241-262
star_cgo(color, outer_points, inner_points, volume_points, normal_front, normal_back) ==
    <<COLOR(color)>>
    \o <<BEGIN("TRIANGLE_FAN"), NORMAL(normal_front), VERTEX(volume_points[1])>>
    \o star_fan(1, outer_points, inner_points) \o <<VERTEX(outer_points[1])>> \o <<END>>
    \o <<BEGIN("TRIANGLE_FAN"), NORMAL(normal_back), VERTEX(volume_points[2])>>
    \o star_fan(1, outer_points, inner_points) \o <<VERTEX(outer_points[1])>> \o <<END>>

\* lines 213-238
star_at(center, r, color, rotation_matrix) ==
    star_cgo(color,
             transform_vertices(outer_points_local(r), center, rotation_matrix),
             transform_vertices(inner_points_local(Mul(r, 45, 100)), center, rotation_matrix),
             transform_vertices(volume_points_local(r), center, rotation_matrix),
             transform_normals(<<Vec(<<0, 1, 0>>)>>, rotation_matrix)[1],
             transform_normals(<<Vec(<<0, -1, 0>>)>>, rotation_matrix)[1])

cgo_star(center, r, color, x_axis, y_axis, z_axis) ==
    star_at(center, r, color, get_transformation_matrix(x_axis, y_axis, z_axis))

\* the octahedron of cgo_diamond and cgo_half_diamond
diamond_vertices_local(r) ==
    << <<0, 0, r>>, <<0, 0, -r>>, <<0, r, 0>>, <<0, -r, 0>>, <<r, 0, 0>>, <<-r, 0, 0>> >>

diamond_normals_local ==
    << normalize_vector(Vec(<<1, 1, 1>>)), normalize_vector(Vec(<<-1, 1, 1>>)),
       normalize_vector(Vec(<<-1, -1, 1>>)), normalize_vector(Vec(<<1, -1, 1>>)),
       normalize_vector(Vec(<<1, 1, -1>>)), normalize_vector(Vec(<<-1, 1, -1>>)),
       normalize_vector(Vec(<<-1, -1, -1>>)), normalize_vector(Vec(<<1, -1, -1>>)) >>

\* the vertex indices of the 8 faces, in emitted order (0-based as in the source)
diamond_faces ==
    << <<0, 2, 4>>, <<0, 5, 2>>, <<0, 3, 5>>, <<0, 4, 3>>,
       <<1, 4, 2>>, <<1, 2, 5>>, <<1, 5, 3>>, <<1, 3, 4>> >>

diamond_face(i, normals, vertices) ==
    << NORMAL(normals[i]), VERTEX(vertices[diamond_faces[i][1] + 1]),
       VERTEX(vertices[diamond_faces[i][2] + 1]),
       VERTEX(vertices[diamond_faces[i][3] + 1]) >>

\* lines 317-332: the faces from face i on
RECURSIVE diamond_faces_from(_, _, _)
diamond_faces_from(i, normals, vertices) ==
    IF i > 8 THEN <<>>
    ELSE diamond_face(i, normals, vertices) \o diamond_faces_from(i + 1, normals, vertices)

\* lines 315-334
diamond_cgo(color, vertices, normals) ==
    <<COLOR(color), BEGIN("TRIANGLES")>> \o diamond_faces_from(1, normals, vertices)
        \o <<END>>

diamond_at(center, r, color, rotation_matrix) ==
    diamond_cgo(color,
                transform_vertices(diamond_vertices_local(r), center, rotation_matrix),
                transform_normals(diamond_normals_local, rotation_matrix))

cgo_diamond(center, r, color, x_axis, y_axis, z_axis) ==
    diamond_at(center, r, color, get_transformation_matrix(x_axis, y_axis, z_axis))

\* a slip: the last face gets the colour of the face before it
half_diamond_face_color_uneven(color, color_2) ==
    << color_2, color, color, color_2, color_2, color, color, color >>

\* the colour set before each face, lines 364-385
half_diamond_face_color(color, color_2) ==
    << color_2, color, color, color_2, color_2, color, color, color_2 >>

RECURSIVE half_diamond_faces_from(_, _, _, _)
half_diamond_faces_from(i, face_color, normals, vertices) ==
    IF i > 8 THEN <<>>
    ELSE <<COLOR(face_color[i])>> \o diamond_face(i, normals, vertices)
         \o half_diamond_faces_from(i + 1, face_color, normals, vertices)

\* lines 361-388
half_diamond_cgo(color, color_2, vertices, normals) ==
    <<BEGIN("TRIANGLES")>>
        \o half_diamond_faces_from(1, half_diamond_face_color(color, color_2),
                                   normals, vertices)
        \o <<END>>

half_diamond_at(center, r, color, color_2, rotation_matrix) ==
    half_diamond_cgo(color, color_2,
                     transform_vertices(diamond_vertices_local(r), center, rotation_matrix),
                     transform_normals(diamond_normals_local, rotation_matrix))

cgo_half_diamond(center, r, color, color_2, x_axis, y_axis, z_axis) ==
    half_diamond_at(center, r, color, color_2,
                    get_transformation_matrix(x_axis, y_axis, z_axis))

cube_vertices_local(r) ==
    << <<r, r, -r>>, <<r, -r, -r>>, <<r, r, r>>, <<r, -r, r>>,
       <<-r, r, r>>, <<-r, -r, r>>, <<-r, r, -r>>, <<-r, -r, -r>>,
       <<-r, r, r>>, <<r, r, r>>, <<-r, r, -r>>, <<r, r, -r>>,
       <<-r, -r, -r>>, <<r, -r, -r>>, <<-r, -r, r>>, <<r, -r, r>>,
       <<-r, r, r>>, <<-r, -r, r>>, <<r, r, r>>, <<r, -r, r>>,
       <<-r, -r, -r>>, <<-r, r, -r>>, <<r, -r, -r>>, <<r, r, -r>> >>

\* a slip: an index written twice in the last strip
strip_orders_repeat ==
    << <<0, 2, 1, 3>>, <<0, 2, 1, 3>>, <<0, 2, 1, 3>>,
       <<0, 2, 1, 3>>, <<0, 2, 1, 3>>, <<0, 2, 1, 1>> >>

strip_orders ==
    << <<0, 2, 1, 3>>, <<0, 2, 1, 3>>, <<0, 2, 1, 3>>,
       <<0, 2, 1, 3>>, <<0, 2, 1, 3>>, <<0, 2, 1, 3>> >>

cube_normals_local ==
    << Vec(<<1, 0, 0>>), Vec(<<-1, 0, 0>>), Vec(<<0, 1, 0>>),
       Vec(<<0, -1, 0>>), Vec(<<0, 0, 1>>), Vec(<<0, 0, -1>>) >>

\* lines 434-438: the four vertices of face i (0-based) in strip order
cube_strip(i, vertices) ==
    << VERTEX(vertices[i * 4 + strip_orders[i + 1][1] + 1]),
       VERTEX(vertices[i * 4 + strip_orders[i + 1][2] + 1]),
       VERTEX(vertices[i * 4 + strip_orders[i + 1][3] + 1]),
       VERTEX(vertices[i * 4 + strip_orders[i + 1][4] + 1]) >>

\* lines 430-439: the faces from face i (0-based) on
RECURSIVE cube_faces_from(_, _, _)
cube_faces_from(i, normals, vertices) ==
    IF i >= 6 THEN <<>>
    ELSE <<BEGIN("TRIANGLE_STRIP"), NORMAL(normals[i + 1])>> \o cube_strip(i, vertices)
         \o <<END>> \o cube_faces_from(i + 1, normals, vertices)

\* lines 429-441
cube_cgo(color, vertices, normals) ==
    <<COLOR(color)>> \o cube_faces_from(0, normals, vertices)

\* r is taken as half the side length (r_half, line 393)
cube_at(center, r, color, rotation_matrix) ==
    cube_cgo(color,
             transform_vertices(cube_vertices_local(r), center, rotation_matrix),
             transform_normals(cube_normals_local, rotation_matrix))

cgo_cube(center, r, color, x_axis, y_axis, z_axis) ==
    cube_at(center, r, color, get_transformation_matrix(x_axis, y_axis, z_axis))

-----------------------------------------------------------------------------
(* The driver render_snfg, snfg.py 446-621 *)

snfg_shapes ==
    [k \in {"GLC", "MAL", "BGC", "MAN", "BMA", "GAL", "GLA", "FUC", "FUL", "XYL", "XYP",
            "XYS", "ARA", "AHR", "RIB", "NAG", "GLCNAC", "4YS", "SGN", "BGLN", "NDG",
            "NGA", "GALNAC", "A2G", "MANNA", "NEU5AC", "SIA", "NEU5GC", "NGC", "KDN",
            "ADA", "GLCA", "GCU", "BDP", "IDOA", "IDS", "IDR", "API"} |->
        CASE k \in {"GLC", "MAL", "BGC"} -> <<SNFG_BLUE, "sphere">>
          [] k \in {"MAN", "BMA"} -> <<SNFG_GREEN, "sphere">>
          [] k \in {"GAL", "GLA"} -> <<SNFG_YELLOW, "sphere">>
          [] k \in {"FUC", "FUL"} -> <<SNFG_RED, "cone">>
          [] k \in {"XYL", "XYP", "XYS"} -> <<SNFG_ORANGE, "star">>
          [] k \in {"ARA", "AHR"} -> <<SNFG_GREEN, "star">>
          [] k = "RIB" -> <<SNFG_PINK, "star">>
          [] k \in {"NAG", "GLCNAC", "4YS", "SGN", "BGLN", "NDG"} -> <<SNFG_BLUE, "cube">>
          [] k \in {"NGA", "GALNAC", "A2G"} -> <<SNFG_YELLOW, "cube">>
          [] k = "MANNA" -> <<SNFG_GREEN, "cube">>
          [] k \in {"NEU5AC", "SIA"} -> <<SNFG_PURPLE, "diamond">>
          [] k \in {"NEU5GC", "NGC"} -> <<SNFG_LIGHT_BLUE, "diamond">>
          [] k = "KDN" -> <<SNFG_GREEN, "diamond">>
          [] k = "ADA" -> <<SNFG_YELLOW, "half_diamond">>
          [] k \in {"GLCA", "GCU", "BDP"} -> <<SNFG_BLUE, "half_diamond">>
          [] k \in {"IDOA", "IDS", "IDR"} -> <<SNFG_BROWN, "half_diamond_reverse">>
          [] k = "API" -> <<SNFG_PINK, "diamond">>]

\* str.isalnum for one character
AlnumChars ==
    {"a", "b", "c", "d", "e", "f", "g", "h", "i", "j", "k", "l", "m", "n", "o", "p", "q",
     "r", "s", "t", "u", "v", "w", "x", "y", "z", "A", "B", "C", "D", "E", "F", "G", "H",
     "I", "J", "K", "L", "M", "N", "O", "P", "Q", "R", "S", "T", "U", "V", "W", "X", "Y",
     "Z", "0", "1", "2", "3", "4", "5", "6", "7", "8", "9"}

\* lines 503-504; a string is the sequence of its characters
safe_selection_name(selection) ==
    LET safe == List([i \in 1..Len(selection) |->
                         IF selection[i] \in AlnumChars THEN selection[i] ELSE "_"])
    IN  IF safe = <<>> THEN <<"s", "e", "l", "e", "c", "t", "i", "o", "n">> ELSE safe

\* f"snfg_{safe_selection_name}", lines 597 and 604
cgo_name_of(selection) == <<"s", "n", "f", "g", "_">> \o safe_selection_name(selection)

\* f"{cgo_name}_axes", lines 598 and 611
debug_cgo_name_of(selection) == cgo_name_of(selection) \o <<"_", "a", "x", "e", "s">>

\* the host's case folding of a residue name, for the names of the model
UpperCase(resn) == IF resn = "man" THEN "MAN" ELSE resn

\* the host's "resn A+B+..." over the keys of snfg_shapes (line 501)
resn_matches(resn, ignore_case) ==
    \/ resn \in DOMAIN snfg_shapes
    \/ ignore_case /\ UpperCase(resn) \in DOMAIN snfg_shapes

\* the selections of the model: the text and the atoms the host picks for it
SelAll == <<"a", "l", "l">>
SelChainA == <<"c", "h", "a", "i", "n", " ", "A">>
SelChainB == <<"c", "h", "a", "i", "n", " ", "B">>
Selections == {SelAll, SelChainA, SelChainB}

selects(selection, atom) ==
    CASE selection = SelAll -> TRUE
      [] selection = SelChainA -> atom.chain = "A"
      [] selection = SelChainB -> atom.chain = "B"

\* cmd.get_model(f"({selection}) and resn {target_resn}"), lines 506 and 43
get_model(atoms, selection, ignore_case) ==
    SelectSeq(atoms, LAMBDA a : selects(selection, a) /\ resn_matches(a.resn, ignore_case))

\* the scale argument is in tenths; lengths are in units of 1/LenUnit
shape_scale_factor(scale) == Mul(4 * scale * LenUnit, 1, 10)
\* a slip: the length of an axis taken from scale, not from shape_scale_factor
axis_length_of_scale(scale) == Mul(scale * LenUnit, 15, 100)
axis_length(scale) == Mul(shape_scale_factor(scale), 15, 10)
axis_radius(scale) == Mul(scale * LenUnit, 1, 100)
sphere_size(scale) == Mul(18 * scale * LenUnit, 1, 100)

\* the attributes of cgo a shape generator reads
ops_of(shape) ==
    CASE shape = "sphere" -> {"COLOR", "SPHERE"}
      [] shape = "cone" -> {"COLOR", "CONE"}
      [] shape = "star" -> {"COLOR", "BEGIN", "TRIANGLE_FAN", "NORMAL", "VERTEX", "END"}
      [] shape = "cube" -> {"COLOR", "BEGIN", "TRIANGLE_STRIP", "NORMAL", "VERTEX", "END"}
      [] shape \in {"diamond", "half_diamond", "half_diamond_reverse"} ->
            {"COLOR", "BEGIN", "TRIANGLES", "NORMAL", "VERTEX", "END"}
      [] OTHER -> {"COLOR", "SPHERE"}

\* a slip: the dispatch without its else branch (cgo_obj stays empty)
shape_cgo_nofallback(f, color, shape, scale) ==
    LET ssf == shape_scale_factor(scale)
    IN  CASE shape = "sphere" -> cgo_sphere(f.center, sphere_size(scale), color)
          [] shape = "star" -> cgo_star(f.center, ssf, color, f.x_axis, f.y_axis, f.z_axis)
          [] shape = "cone" ->
                cgo_cone(f.center, Mul(ssf, 75, 100), color, f.x_axis, f.y_axis, f.z_axis)
          [] shape = "cube" ->
                cgo_cube(f.center, Mul(ssf, 55, 100), color, f.x_axis, f.y_axis, f.z_axis)
          [] shape = "diamond" ->
                cgo_diamond(f.center, Mul(ssf, 75, 100), color, f.x_axis, f.y_axis, f.z_axis)
          [] shape = "half_diamond" ->
                cgo_half_diamond(f.center, Mul(ssf, 75, 100), color, SNFG_WHITE,
                                 f.x_axis, f.y_axis, f.z_axis)
          [] shape = "half_diamond_reverse" ->
                cgo_half_diamond(f.center, Mul(ssf, 75, 100), SNFG_WHITE, color,
                                 f.x_axis, f.y_axis, f.z_axis)
          [] OTHER -> <<>>

\* the dispatch of lines 538-555
shape_cgo(f, color, shape, scale) ==
    LET ssf == shape_scale_factor(scale)
    IN  CASE shape = "sphere" -> cgo_sphere(f.center, sphere_size(scale), color)
          [] shape = "star" -> cgo_star(f.center, ssf, color, f.x_axis, f.y_axis, f.z_axis)
          [] shape = "cone" ->
                cgo_cone(f.center, Mul(ssf, 75, 100), color, f.x_axis, f.y_axis, f.z_axis)
          [] shape = "cube" ->
                cgo_cube(f.center, Mul(ssf, 55, 100), color, f.x_axis, f.y_axis, f.z_axis)
          [] shape = "diamond" ->
                cgo_diamond(f.center, Mul(ssf, 75, 100), color, f.x_axis, f.y_axis, f.z_axis)
          [] shape = "half_diamond" ->
                cgo_half_diamond(f.center, Mul(ssf, 75, 100), color, SNFG_WHITE,
                                 f.x_axis, f.y_axis, f.z_axis)
          [] shape = "half_diamond_reverse" ->
                cgo_half_diamond(f.center, Mul(ssf, 75, 100), SNFG_WHITE, color,
                                 f.x_axis, f.y_axis, f.z_axis)
          [] OTHER -> cgo_sphere(f.center, sphere_size(scale), color)

\* the end point center + axis * axis_length of a debug axis
axis_end(center, axis, length) ==
    LET u == Fixed(axis)
    IN  Add3(center, <<RoundDiv(u[1] * length, MatUnit), RoundDiv(u[2] * length, MatUnit),
                       RoundDiv(u[3] * length, MatUnit)>>)

\* one debug cylinder, lines 570-582
cylinder(center, axis, scale, color) ==
    Tok("CYLINDER", center \o axis_end(center, axis, axis_length(scale))
                       \o <<axis_radius(scale)>> \o color \o color)

debug_axes_cgo(f, scale) ==
    << cylinder(f.center, f.x_axis, scale, AXIS_X_COLOR),
       cylinder(f.center, f.y_axis, scale, AXIS_Y_COLOR),
       cylinder(f.center, f.z_axis, scale, AXIS_Z_COLOR) >>

\* the accumulators of the loop: the two lists and processed_count, and for
\* each list the residue names of the frames that were appended to it
EmptyAcc ==
    [cgo_objects |-> <<>>, debug_cgo_objects |-> <<>>, processed_count |-> 0,
     from |-> <<>>, debug_from |-> <<>>, raised |-> <<>>]

\* a slip: the table is read with a default entry instead of the membership test
render_residue_default(acc, f, scale, debug_axes, attrs) ==
    LET entry == IF f.resn \in DOMAIN snfg_shapes THEN snfg_shapes[f.resn]
                 ELSE <<SNFG_WHITE, "sphere">>
        cgo_obj == shape_cgo(f, entry[1], entry[2], scale)
    IN  [acc EXCEPT !.cgo_objects = @ \o cgo_obj,
                    !.processed_count = @ + 1,
                    !.from = Append(@, f.resn),
                    !.debug_cgo_objects =
                        IF debug_axes /\ "CYLINDER" \in attrs
                        THEN @ \o debug_axes_cgo(f, scale) ELSE @,
                    !.debug_from =
                        IF debug_axes /\ "CYLINDER" \in attrs
                        THEN Append(@, f.resn) ELSE @]

\* a slip: a generator that appends to the global list as it goes leaves the
\* colour it had set before it raised
render_residue_partial(acc, f, scale, debug_axes, attrs) ==
    IF f.resn \notin DOMAIN snfg_shapes THEN acc
    ELSE LET color == snfg_shapes[f.resn][1]
             shape == snfg_shapes[f.resn][2]
         IN  IF ~(ops_of(shape) \subseteq attrs)
             THEN [acc EXCEPT !.cgo_objects = @ \o <<COLOR(color)>>,
                              !.raised = Append(@, f.resn)]
             ELSE [acc EXCEPT !.cgo_objects = @ \o shape_cgo(f, color, shape, scale),
                              !.processed_count = @ + 1,
                              !.from = Append(@, f.resn),
                              !.debug_cgo_objects =
                                  IF debug_axes /\ "CYLINDER" \in attrs
                                  THEN @ \o debug_axes_cgo(f, scale) ELSE @,
                              !.debug_from =
                                  IF debug_axes /\ "CYLINDER" \in attrs
                                  THEN Append(@, f.resn) ELSE @]

\* lines 557-561: the list of one residue is added to the primary list
extend_cgo_objects(acc, f, cgo_obj) ==
    IF cgo_obj # <<>>
    THEN [acc EXCEPT !.cgo_objects = @ \o cgo_obj,
                     !.processed_count = @ + 1,
                     !.from = Append(@, f.resn)]
    ELSE acc

\* lines 564-584: the debug axes of one residue, after its shape
add_debug_axes(acc, f, scale, debug_axes, attrs) ==
    IF ~debug_axes THEN acc
    ELSE IF isnan(f.x_axis) \/ isnan(f.y_axis) \/ isnan(f.z_axis) THEN acc
    ELSE IF "CYLINDER" \notin attrs
         THEN \* raised at line 570, after the shape was appended
              [acc EXCEPT !.raised = Append(@, f.resn)]
    ELSE [acc EXCEPT !.debug_cgo_objects = @ \o debug_axes_cgo(f, scale),
                     !.debug_from = Append(@, f.resn)]

\* a slip: the debug axes of a frame are added ahead of the try block, before
\* its shape is generated
render_entry_axesfirst(acc, f, color, shape, scale, debug_axes, attrs) ==
    IF ~(ops_of(shape) \subseteq attrs)
    THEN [add_debug_axes(acc, f, scale, debug_axes, attrs)
             EXCEPT !.raised = Append(@, f.resn)]
    ELSE extend_cgo_objects(add_debug_axes(acc, f, scale, debug_axes, attrs),
                            f, shape_cgo(f, color, shape, scale))

\* lines 532-590: the try block for one frame and its table entry (color,
\* shape).  A generator raises (AttributeError) when the cgo module lacks an
\* opcode it reads; the except clause of line 587 then leaves the lists as
\* they are
render_entry(acc, f, color, shape, scale, debug_axes, attrs) ==
    IF ~(ops_of(shape) \subseteq attrs)
    THEN \* the generator raised: cgo_obj was never assigned
         [acc EXCEPT !.raised = Append(@, f.resn)]
    ELSE add_debug_axes(extend_cgo_objects(acc, f, shape_cgo(f, color, shape, scale)),
                        f, scale, debug_axes, attrs)

\* the body of the loop, lines 526-590, for one frame
render_residue(acc, f, scale, debug_axes, attrs) ==
    IF f.resn \notin DOMAIN snfg_shapes
    THEN acc
    ELSE render_entry(acc, f, snfg_shapes[f.resn][1], snfg_shapes[f.resn][2],
                      scale, debug_axes, attrs)

\* the loop of line 526 over orientation_data
RECURSIVE render_loop(_, _, _, _, _)
render_loop(acc, orientation_data, scale, debug_axes, attrs) ==
    IF orientation_data = <<>> THEN acc
    ELSE render_loop(render_residue(acc, Head(orientation_data), scale, debug_axes, attrs),
                     Tail(orientation_data), scale, debug_axes, attrs)

\* operations on the sink
Delete(name) == <<"delete", name, <<>>>>
LoadCgo(name, cgo_list) == <<"load_cgo", name, cgo_list>>

\* a slip: the debug object gets one fixed name, whatever the selection
sink_ops_fixedaxes(acc, selection, debug_axes) ==
    IF acc.cgo_objects = <<>>
    THEN IF debug_axes /\ acc.debug_cgo_objects # <<>>
         THEN <<LoadCgo(<<"s", "n", "f", "g", "_", "a", "x", "e", "s">>,
                        acc.debug_cgo_objects)>>
         ELSE <<>>
    ELSE <<Delete(cgo_name_of(selection)), LoadCgo(cgo_name_of(selection), acc.cgo_objects)>>
         \o (IF debug_axes /\ acc.debug_cgo_objects # <<>>
             THEN <<Delete(<<"s", "n", "f", "g", "_", "a", "x", "e", "s">>),
                    LoadCgo(<<"s", "n", "f", "g", "_", "a", "x", "e", "s">>,
                            acc.debug_cgo_objects)>>
             ELSE <<>>)

\* a slip: the debug object is loaded as at line 599, without a delete, on
\* the path of line 610 too
sink_ops_axesnodelete(acc, selection, debug_axes) ==
    IF acc.cgo_objects = <<>>
    THEN IF debug_axes /\ acc.debug_cgo_objects # <<>>
         THEN <<LoadCgo(debug_cgo_name_of(selection), acc.debug_cgo_objects)>>
         ELSE <<>>
    ELSE <<Delete(cgo_name_of(selection)), LoadCgo(cgo_name_of(selection), acc.cgo_objects)>>
         \o (IF debug_axes /\ acc.debug_cgo_objects # <<>>
             THEN <<LoadCgo(debug_cgo_name_of(selection), acc.debug_cgo_objects)>>
             ELSE <<>>)

\* a variant: a call without debug axes clears the axes object of an earlier call
sink_ops_clearaxes(acc, selection, debug_axes) ==
    IF acc.cgo_objects = <<>>
    THEN IF debug_axes /\ acc.debug_cgo_objects # <<>>
         THEN <<LoadCgo(debug_cgo_name_of(selection), acc.debug_cgo_objects)>>
         ELSE <<>>
    ELSE <<Delete(cgo_name_of(selection)), LoadCgo(cgo_name_of(selection), acc.cgo_objects)>>
         \o (IF debug_axes /\ acc.debug_cgo_objects # <<>>
             THEN <<Delete(debug_cgo_name_of(selection)),
                    LoadCgo(debug_cgo_name_of(selection), acc.debug_cgo_objects)>>
             ELSE <<Delete(debug_cgo_name_of(selection))>>)

\* a slip: the main object is loaded without deleting the existing one first
sink_ops_nodelete(acc, selection, debug_axes) ==
    IF acc.cgo_objects = <<>>
    THEN IF debug_axes /\ acc.debug_cgo_objects # <<>>
         THEN <<LoadCgo(debug_cgo_name_of(selection), acc.debug_cgo_objects)>>
         ELSE <<>>
    ELSE <<LoadCgo(cgo_name_of(selection), acc.cgo_objects)>>
         \o (IF debug_axes /\ acc.debug_cgo_objects # <<>>
             THEN <<LoadCgo(debug_cgo_name_of(selection), acc.debug_cgo_objects)>>
             ELSE <<>>)

\* a slip: the test for an empty main list is missing
sink_ops_noemptytest(acc, selection, debug_axes) ==
    <<Delete(cgo_name_of(selection)), LoadCgo(cgo_name_of(selection), acc.cgo_objects)>>
    \o (IF debug_axes /\ acc.debug_cgo_objects # <<>>
        THEN <<Delete(debug_cgo_name_of(selection)),
               LoadCgo(debug_cgo_name_of(selection), acc.debug_cgo_objects)>>
        ELSE <<>>)

\* a variant: an empty main list deletes the object of an earlier call
sink_ops_deleteempty(acc, selection, debug_axes) ==
    IF acc.cgo_objects = <<>>
    THEN <<Delete(cgo_name_of(selection))>>
    ELSE <<Delete(cgo_name_of(selection)), LoadCgo(cgo_name_of(selection), acc.cgo_objects)>>
         \o (IF debug_axes /\ acc.debug_cgo_objects # <<>>
             THEN <<Delete(debug_cgo_name_of(selection)),
                    LoadCgo(debug_cgo_name_of(selection), acc.debug_cgo_objects)>>
             ELSE <<>>)

\* lines 593-616: what the call does to the sink once the loop is over
sink_ops(acc, selection, debug_axes) ==
    IF acc.cgo_objects = <<>>
    THEN IF debug_axes /\ acc.debug_cgo_objects # <<>>
         THEN <<LoadCgo(debug_cgo_name_of(selection), acc.debug_cgo_objects)>>
         ELSE <<>>
    ELSE <<Delete(cgo_name_of(selection)), LoadCgo(cgo_name_of(selection), acc.cgo_objects)>>
         \o (IF debug_axes /\ acc.debug_cgo_objects # <<>>
             THEN <<Delete(debug_cgo_name_of(selection)),
                    LoadCgo(debug_cgo_name_of(selection), acc.debug_cgo_objects)>>
             ELSE <<>>)

\* lines 593-616 with the values the model keeps of the call
emit(orientation_data, acc, selection, debug_axes) ==
    [frames |-> orientation_data, acc |-> acc,
     ops |-> sink_ops(acc, selection, debug_axes)]

\* lines 512-616: render_snfg from the frames of line 510 on
render_frames(orientation_data, selection, scale, debug_axes, attrs) ==
    IF orientation_data = <<>>
    THEN [frames |-> orientation_data, acc |-> EmptyAcc, ops |-> <<>>]
    ELSE emit(orientation_data,
              render_loop(EmptyAcc, orientation_data, scale, debug_axes, attrs),
              selection, debug_axes)

\* render_snfg as a function of the host's state: the frames, the accumulators
\* at the end of the loop and the operations on the sink
render_snfg(atoms, selection, scale, debug_axes, ignore_case, sign, attrs) ==
    render_frames(get_residue_orientation(get_model(atoms, selection, ignore_case), sign),
                  selection, scale, debug_axes, attrs)

\* the residues of the host's structure
ResidueKeysOfStructure == {res_key(structure[i]) : i \in 1..Len(structure)}

\* the host's sink: cmd.delete removes the object of that name; cmd.load_cgo
\* adds the list as a new state of the object of that name, creating it if needed
sink_apply(snk, op) ==
    LET name == op[2]
    IN  IF op[1] = "delete"
        THEN [n \in DOMAIN snk \ {name} |-> snk[n]]
        ELSE [n \in DOMAIN snk \cup {name} |->
                 IF n = name
                 THEN (IF name \in DOMAIN snk THEN snk[name] ELSE <<>>) \o <<op[3]>>
                 ELSE snk[n]]

RECURSIVE sink_apply_all(_, _)
sink_apply_all(snk, ops) ==
    IF ops = <<>> THEN snk ELSE sink_apply_all(sink_apply(snk, Head(ops)), Tail(ops))

-----------------------------------------------------------------------------
(* Inputs *)

\* a grid point (Angstrom) as a coordinate
At(x, y, z) == <<x * LenUnit, y * LenUnit, z * LenUnit>>

Atom(chain, resi, resn, name, coord) ==
    [chain |-> chain, resi |-> resi, resn |-> resn, name |-> name, coord |-> coord]

\* the places tried for each ring atom
Places ==
    [C1 |-> {At(0, 0, 0), At(2, 0, 0)},
     C2 |-> {At(0, 2, 0), At(2, 2, 0)},
     C3 |-> {At(0, 0, 2), At(2, 0, 2)},
     C4 |-> {At(0, 1, 1), At(1, 1, 0), At(0, 0, 2)},
     C5 |-> {At(0, 2, 2), At(2, 2, 2), At(0, 0, 2)},
     O5 |-> {At(2, 1, 1), At(2, 2, -2)}]

Absent == <<>>

\* one residue: each ring atom absent or at one of its places
Opt(n) == {Absent} \cup Places[n]

RingChoices ==
    { [C1 |-> c1, C2 |-> c2, C3 |-> c3, C4 |-> c4, C5 |-> c5, O5 |-> o5] :
        c1 \in Opt("C1"), c2 \in Opt("C2"), c3 \in Opt("C3"),
        c4 \in Opt("C4"), c5 \in Opt("C5"), o5 \in Opt("O5") }

RECURSIVE RingAtoms(_, _, _, _, _)
RingAtoms(chain, resi, resn, ch, names) ==
    IF names = <<>> THEN <<>>
    ELSE LET rest == RingAtoms(chain, resi, resn, ch, Tail(names))
         IN  IF ch[Head(names)] = Absent THEN rest
             ELSE <<Atom(chain, resi, resn, Head(names), ch[Head(names)])>> \o rest

\* the plane atoms of a choice lie in one plane
ChoicePlanar(ch) ==
    LET pts == coords_of([n \in {m \in DOMAIN Places : ch[m] # Absent} |-> ch[n]],
                         plane_atoms)
    IN  Len(pts) < 3 \/
        HasExactPlane([i \in 1..Len(pts) |-> Sub3(Scale3(Len(pts), pts[i]), Sum3(pts))])

\* a second residue beside the first: none, one without any ring atom, one
\* with two ring atoms, one with three ring atoms that span a plane
Neighbours ==
    { <<>>,
      << Atom("A", 2, "NAG", "C1", At(4, 4, 4)), Atom("A", 2, "NAG", "C2", At(4, 6, 4)),
         Atom("A", 2, "NAG", "C4", At(4, 4, 6)) >>,
      << Atom("A", 2, "NAG", "C6", At(4, 4, 4)), Atom("A", 2, "NAG", "O6", At(4, 4, 6)) >>,
      << Atom("A", 2, "NAG", "C1", At(4, 4, 4)), Atom("A", 2, "NAG", "C6", At(4, 4, 6)),
         Atom("A", 2, "NAG", "C2", At(4, 6, 4)) >> }

NoCall == [n |-> 0]

\* the interface module as loaded: no window yet
NoEvent == [op |-> "none"]

NoInterface ==
    /\ INSTANCES = <<>>
    /\ windows = <<>>
    /\ event = NoEvent

-----------------------------------------------------------------------------
(* normalize_vector on its own *)

NormInputs ==
    { [d |-> <<a, b, c>>, e |-> ex, q |-> 1] :
        a \in -NormRange..NormRange, b \in -NormRange..NormRange,
        c \in -NormRange..NormRange, ex \in {0, 9, 10, 12} }

Idle ==
    /\ structure = <<>>
    /\ ignoreCase = FALSE
    /\ cgoAttrs = {}
    /\ sink = <<>>
    /\ last = NoCall
    /\ ncalls = 0
    /\ dirty = FALSE

InitNorm ==
    /\ NoInterface
    /\ Idle
    /\ svdSign = 1
    /\ pc = "input"
    /\ vin \in NormInputs
    /\ vout = default_z
    /\ orient = <<>>

NormalizeStep ==
    /\ pc = "input"
    /\ vout' = normalize_vector(vin)
    /\ pc' = "done"
    /\ UNCHANGED <<structure, ignoreCase, svdSign, cgoAttrs, sink, last, ncalls,
                   dirty, vin, orient>>
    /\ UNCHANGED <<INSTANCES, windows, event>>

NextNorm == NormalizeStep

SpecNorm == InitNorm /\ [][NextNorm]_vars

-----------------------------------------------------------------------------
(* get_residue_orientation on its own *)

InitFrame ==
    /\ NoInterface
    /\ ignoreCase = FALSE
    /\ cgoAttrs = {}
    /\ sink = <<>>
    /\ last = NoCall
    /\ ncalls = 0
    /\ dirty = FALSE
    /\ svdSign \in {1, -1}
    /\ pc = "input"
    /\ vin = default_z
    /\ vout = default_z
    /\ orient = <<>>
    /\ \E ch \in RingChoices : \E nb \in Neighbours :
          /\ ChoicePlanar(ch)
          /\ structure = RingAtoms("A", 1, "MAN", ch, required_atoms) \o nb

EstimateStep ==
    /\ pc = "input"
    /\ orient' = get_residue_orientation(structure, svdSign)
    /\ vout' = plane_normals(structure, svdSign)
    /\ pc' = "done"
    /\ UNCHANGED <<structure, ignoreCase, svdSign, cgoAttrs, sink, last, ncalls,
                   dirty, vin>>
    /\ UNCHANGED <<INSTANCES, windows, event>>

NextFrame == EstimateStep

SpecFrame == InitFrame /\ [][NextFrame]_vars

-----------------------------------------------------------------------------
(* The renderer in its host: calls of render_snfg, and edits of the structure *)

\* ring atoms of one residue, moved by (dx, 0, 0) Angstrom
Shifted(ch, dx) ==
    [n \in DOMAIN ch |-> IF ch[n] = Absent THEN Absent ELSE Add3(ch[n], At(dx, 0, 0))]

\* a complete ring whose plane normal lies along the direction to C4
RingFull ==
    [C1 |-> At(0, 0, 0), C2 |-> At(0, 2, 0), C3 |-> At(0, 0, 2),
     C4 |-> At(0, 1, 1), C5 |-> At(0, 2, 2), O5 |-> At(2, 1, 1)]

\* a ring whose center is C4 and whose axes are not along the grid
RingTilted ==
    [C1 |-> At(0, 0, 0), C2 |-> At(2, 2, 0), C3 |-> At(0, 0, 2),
     C4 |-> At(1, 1, 0), C5 |-> Absent, O5 |-> At(2, 2, -2)]

\* a ring without C4
RingNoC4 ==
    [C1 |-> At(0, 0, 0), C2 |-> At(0, 2, 0), C3 |-> At(0, 0, 2),
     C4 |-> Absent, C5 |-> Absent, O5 |-> Absent]

\* no ring atom at all
RingNone == [n \in DOMAIN Places |-> Absent]

Residue(chain, resi, resn, ch, dx) ==
    RingAtoms(chain, resi, resn, Shifted(ch, dx), required_atoms)
        \o <<Atom(chain, resi, resn, "C6", At(dx + 3, 3, 3))>>

FirstNames == {"FUC", "man", "HOH"}
SecondNames == {"MAN", "NAG", "IDS"}

\* two residues with an atom C6 each; and a residue MAN of the six ring atoms
\* and nothing else, alone or beside a water
RenderStructures ==
    { Residue("A", 1, n1, r1, 0) \o Residue("B", 2, n2, r2, 10) :
        n1 \in FirstNames, r1 \in {RingFull, RingNone},
        n2 \in SecondNames, r2 \in {RingTilted, RingNoC4} }
    \cup
    { nb \o RingAtoms("B", 2, "MAN", Shifted(RingFull, 10), required_atoms) :
        nb \in {<<>>, Residue("A", 1, "HOH", RingNone, 0)} }

\* the cgo module of the host: complete, or lacking an opcode
CgoModules == {AllOps, AllOps \ {"CONE"}, AllOps \ {"CYLINDER"}}

\* the scale argument, in tenths (the default, scale=0.5)
Scales == {5}

Init ==
    /\ NoInterface
    /\ structure \in RenderStructures
    /\ ignoreCase \in BOOLEAN
    /\ svdSign = 1
    /\ cgoAttrs \in CgoModules
    /\ sink = <<>>
    /\ last = NoCall
    /\ ncalls = 0
    /\ dirty = FALSE
    /\ pc = "host"
    /\ vin = default_z
    /\ vout = default_z
    /\ orient = <<>>

\* one call render_snfg(selection, scale=scale, debug_axes=debug_axes)
Render(selection, scale, debug_axes) ==
    /\ ncalls < MaxCalls
    /\ \E r \in {render_snfg(structure, selection, scale, debug_axes,
                              ignoreCase, svdSign, cgoAttrs)} :
       LET sel_atoms == SelectSeq(structure, LAMBDA a : selects(selection, a))
       IN  /\ sink' = sink_apply_all(sink, r.ops)
           /\ last' = [n |-> ncalls + 1,
                       selection |-> selection, scale |-> scale,
                       debug_axes |-> debug_axes,
                       selected |-> {res_key(sel_atoms[i]) : i \in 1..Len(sel_atoms)},
                       frames |-> r.frames,
                       cgo_objects |-> r.acc.cgo_objects,
                       debug_cgo_objects |-> r.acc.debug_cgo_objects,
                       from |-> r.acc.from,
                       debug_from |-> r.acc.debug_from,
                       raised |-> r.acc.raised,
                       ops |-> r.ops,
                       \* the call before this one had the same arguments and the
                       \* structure was not edited in between
                       repeat |-> /\ last # NoCall
                                  /\ ~dirty
                                  /\ last.selection = selection
                                  /\ last.scale = scale
                                  /\ last.debug_axes = debug_axes,
                       before |-> IF last = NoCall THEN <<>>
                                  ELSE <<last.cgo_objects, last.debug_cgo_objects>>,
                       sink_before |-> sink]
    /\ ncalls' = ncalls + 1
    /\ dirty' = FALSE
    /\ UNCHANGED <<structure, ignoreCase, svdSign, cgoAttrs, pc, vin, vout, orient>>
    /\ UNCHANGED <<INSTANCES, windows, event>>

\* the user removes a residue from the structure
HostRemove(key) ==
    /\ key \in ResidueKeysOfStructure
    /\ structure' = SelectSeq(structure, LAMBDA a : res_key(a) # key)
    /\ dirty' = TRUE
    /\ UNCHANGED <<ignoreCase, svdSign, cgoAttrs, sink, last, ncalls, pc, vin, vout, orient>>
    /\ UNCHANGED <<INSTANCES, windows, event>>

Next ==
    \/ \E selection \in Selections, scale \in Scales, debug_axes \in BOOLEAN :
          Render(selection, scale, debug_axes)
    \/ \E key \in ResidueKeysOfStructure : HostRemove(key)

Spec == Init /\ [][Next]_vars

-----------------------------------------------------------------------------
(* The body of the loop, and transform_vertices, on their own *)

\* the frames tried: the default basis at the origin, and the frames the
\* estimator returns for the rings above
ShapeFrames ==
    { Frame("MAN", Zero3, default_x, default_y, default_z) } \cup
    { get_residue_orientation(Residue("A", 1, "MAN", r, dx), sign)[1] :
        r \in {RingFull, RingTilted, RingNoC4}, dx \in {0, 10}, sign \in {1, -1} }

\* a table entry (color, shape) with every kind the dispatch tests for and one
\* it does not, and the arguments scale (in tenths) and debug_axes
InitShape ==
    /\ NoInterface
    /\ structure = <<>>
    /\ ignoreCase = FALSE
    /\ svdSign = 1
    /\ cgoAttrs \in CgoModules
    /\ sink = <<>>
    /\ last = NoCall
    /\ ncalls = 0
    /\ dirty = FALSE
    /\ pc = "input"
    /\ \E f \in ShapeFrames : orient = <<f>>
    /\ vin \in [color : {SNFG_GREEN, SNFG_BROWN},
                shape : {"sphere", "star", "cone", "cube", "diamond", "half_diamond",
                         "half_diamond_reverse", "rectangle"},
                scale : {5, 8},
                debug_axes : BOOLEAN]
    /\ vout = EmptyAcc

\* one pass of the loop body, lines 532-590, from empty lists
DispatchStep ==
    /\ pc = "input"
    /\ vout' = render_entry(EmptyAcc, orient[1], vin.color, vin.shape, vin.scale,
                            vin.debug_axes, cgoAttrs)
    /\ pc' = "dispatched"
    /\ UNCHANGED <<structure, ignoreCase, svdSign, cgoAttrs, sink, last, ncalls,
                   dirty, vin, orient>>
    /\ UNCHANGED <<INSTANCES, windows, event>>

\* transform_vertices on the local vertices of a shape, with the matrix of the
\* frame's axes and the frame's center
TransformStep ==
    /\ pc = "input"
    /\ \E vertices \in { cube_vertices_local(shape_scale_factor(vin.scale)),
                          diamond_vertices_local(shape_scale_factor(vin.scale)),
                          outer_points_local(shape_scale_factor(vin.scale)) } :
          vout' = [vertices |-> vertices,
                   transformed |->
                       transform_vertices(vertices, orient[1].center,
                           get_transformation_matrix(orient[1].x_axis, orient[1].y_axis,
                                                     orient[1].z_axis))]
    /\ pc' = "transformed"
    /\ UNCHANGED <<structure, ignoreCase, svdSign, cgoAttrs, sink, last, ncalls,
                   dirty, vin, orient>>
    /\ UNCHANGED <<INSTANCES, windows, event>>

NextShape == DispatchStep \/ TransformStep

SpecShape == InitShape /\ [][NextShape]_vars

-----------------------------------------------------------------------------
(* The window registry and the bridge of the interface,                    *)
(* reglyco_interface.py 230-557 (html_interface.py has the same            *)
(* run_plugin_gui and closeEvent over a registry of its own).  The module  *)
(* is taken as loaded with the web components: without them                *)
(* __init_plugin__ adds no menu entry and run_plugin_gui returns at once.  *)

\* at most this many windows are constructed in one behaviour
MaxWindows == 3

instance_key == "html_interface_main"

\* what the construction of a window meets: index.html exists (line 321),
\* QWebEngineView() returns (line 340), the channel set-up returns (350-357)
Environments == [html : BOOLEAN, view : BOOLEAN, channel : BOOLEAN]

\* a window object before __init__ has set anything.  webView, channel and
\* bridge: the attribute holds an object (not None); connected: loadFinished
\* is connected to _on_load_finished; base64_encoded_data: the bridge object
\* has the attribute; raised: __init__ ended with an exception
NewWindow ==
    [webView |-> FALSE, channel |-> FALSE, bridge |-> FALSE, connected |-> FALSE,
     base64_encoded_data |-> FALSE, visible |-> FALSE, closed |-> FALSE,
     raised |-> FALSE]

\* lines 402-423
setup_error_ui(w) ==
    [w EXCEPT !.webView = FALSE, !.channel = FALSE, !.bridge = FALSE]

\* HtmlInterfaceWindow.__init__, lines 305-399
HtmlInterfaceWindow(env) ==
    IF ~env.html THEN setup_error_ui(NewWindow)
    ELSE IF ~env.view THEN setup_error_ui(NewWindow)
    ELSE IF ~env.channel
         THEN \* lines 359-365 go on to line 371 with a web view that is None:
              \* the constructor ends with an exception
              [setup_error_ui(NewWindow) EXCEPT !.raised = TRUE]
    ELSE [NewWindow EXCEPT !.webView = TRUE, !.channel = TRUE, !.bridge = TRUE,
                           !.connected = TRUE]

InitGui ==
    /\ Idle
    /\ svdSign = 1
    /\ pc = "gui"
    /\ vin = default_z
    /\ vout = default_z
    /\ orient = <<>>
    /\ NoInterface

\* a slip: the window leaves the registry only when it is destroyed
closeEvent_nopop(w) ==
    /\ w \in 1..Len(windows)
    /\ windows[w].visible
    /\ windows' = [windows EXCEPT ![w] =
                      [@ EXCEPT !.webView = FALSE, !.channel = FALSE, !.bridge = FALSE,
                                !.connected = FALSE, !.visible = FALSE, !.closed = TRUE]]
    /\ event' = [op |-> "closeEvent", window |-> w]
    /\ UNCHANGED <<INSTANCES, structure, ignoreCase, svdSign, cgoAttrs, sink, last,
                   ncalls, dirty, pc, vin, vout, orient>>

\* run_plugin_gui, lines 520-557: the menu entry was chosen
run_plugin_gui(env) ==
    /\ IF instance_key \in DOMAIN INSTANCES /\ windows[INSTANCES[instance_key]].visible
       THEN \* lines 533-534: raise_() and activateWindow()
            /\ event' = [op |-> "run_plugin_gui", visible |-> TRUE,
                         raised |-> INSTANCES[instance_key],
                         windows |-> Len(windows), instances |-> INSTANCES]
            /\ UNCHANGED <<INSTANCES, windows>>
       ELSE /\ Len(windows) < MaxWindows
            /\ \E window_instance \in {HtmlInterfaceWindow(env)} :
                  IF ~window_instance.raised /\ window_instance.webView
                  THEN \* lines 544-545
                       /\ windows' = Append(windows,
                                            [window_instance EXCEPT !.visible = TRUE])
                       /\ INSTANCES' = [k \in DOMAIN INSTANCES \cup {instance_key} |->
                                           IF k = instance_key THEN Len(windows) + 1
                                           ELSE INSTANCES[k]]
                  ELSE \* lines 547-553: the window is dropped
                       /\ windows' = Append(windows, window_instance)
                       /\ UNCHANGED INSTANCES
            /\ event' = [op |-> "run_plugin_gui", visible |-> FALSE, raised |-> 0,
                         windows |-> Len(windows), instances |-> INSTANCES]
    /\ UNCHANGED <<structure, ignoreCase, svdSign, cgoAttrs, sink, last, ncalls, dirty,
                   pc, vin, vout, orient>>

\* closeEvent, lines 470-502: the user closes window w, which is on screen
closeEvent(w) ==
    /\ w \in 1..Len(windows)
    /\ windows[w].visible
    /\ INSTANCES' = [k \in DOMAIN INSTANCES \ {instance_key} |-> INSTANCES[k]]
    /\ windows' = [windows EXCEPT ![w] =
                      [@ EXCEPT !.webView = FALSE, !.channel = FALSE, !.bridge = FALSE,
                                !.connected = FALSE, !.visible = FALSE, !.closed = TRUE]]
    /\ event' = [op |-> "closeEvent", window |-> w]
    /\ UNCHANGED <<structure, ignoreCase, svdSign, cgoAttrs, sink, last, ncalls, dirty,
                   pc, vin, vout, orient>>

\* _on_load_finished, lines 436-468: the web view of window w signals the end
\* of a page load.  saved: cmd.save of "(sele)" and the calls up to line 459
\* returned (they raise, for one, when the host has no selection of that name)
on_load_finished(w, ok, saved) ==
    /\ w \in 1..Len(windows)
    /\ windows[w].connected
    /\ windows' =
          IF ~windows[w].webView THEN windows
          ELSE IF ~saved THEN windows
          ELSE IF ok /\ windows[w].channel /\ windows[w].bridge
               THEN [windows EXCEPT ![w].base64_encoded_data = TRUE]
          ELSE windows
    /\ event' = [op |-> "_on_load_finished", window |-> w, ok |-> ok, saved |-> saved]
    /\ UNCHANGED <<INSTANCES, structure, ignoreCase, svdSign, cgoAttrs, sink, last,
                   ncalls, dirty, pc, vin, vout, orient>>

\* PyMolBridge.executeReGlyco, lines 248-256: the page of window w calls the
\* slot over the channel set on it at line 357.  Line 251 reads
\* self.base64_encoded_data: has_data tells whether the attribute was there
\* (an AttributeError otherwise).  The job sent to the web service and its
\* result are outside the model
executeReGlyco(w) ==
    /\ w \in 1..Len(windows)
    /\ windows[w].channel /\ windows[w].bridge
    /\ event' = [op |-> "executeReGlyco", window |-> w,
                 has_data |-> windows[w].base64_encoded_data]
    /\ UNCHANGED <<INSTANCES, windows, structure, ignoreCase, svdSign, cgoAttrs, sink,
                   last, ncalls, dirty, pc, vin, vout, orient>>

NextGui ==
    \/ \E env \in Environments : run_plugin_gui(env)
    \/ \E w \in 1..MaxWindows : closeEvent(w)
    \/ \E w \in 1..MaxWindows, ok \in BOOLEAN, saved \in BOOLEAN :
          on_load_finished(w, ok, saved)
    \/ \E w \in 1..MaxWindows : executeReGlyco(w)

SpecGui == InitGui /\ [][NextGui]_vars

-----------------------------------------------------------------------------
(* Properties of normalize_vector and of the frame estimator *)

\* the residues of a list of atoms
ResidueKeysOf(atoms) == {res_key(atoms[i]) : i \in 1..Len(atoms)}

\* the names of the ring atoms a residue has
RingNamesOf(atoms, key) ==
    {atoms[i].name : i \in {j \in 1..Len(atoms) : res_key(atoms[j]) = key}}
        \cap SeqToSet(required_atoms)

\* the i-th frame of orient belongs to the i-th residue that has a ring atom
FrameKey(i) == residue_keys(structure)[i]

HasDefaultAxes(f) ==
    f.x_axis = default_x /\ f.y_axis = default_y /\ f.z_axis = default_z

\* dot(cross(x, y), z) of a frame, times sqrt(qx * qy * qz)
Triple(f) == Dot3(Cross3(f.x_axis.d, f.y_axis.d), f.z_axis.d)

\* C1: the estimator returns exactly one frame per distinct residue key of
\* the atoms it is given, a residue without any ring atom included.
C1_OneFramePerResidue ==
    pc = "done" => Len(orient) = Cardinality(ResidueKeysOf(structure))

\* the residue name of a key (chain, resi, resn)
NameOf(key) == key[3]

\* a frame whose shape generator runs to its return under the cgo module attrs
Generates(f, attrs) ==
    /\ f.resn \in DOMAIN snfg_shapes
    /\ ops_of(snfg_shapes[f.resn][2]) \subseteq attrs

\* the complete primitive lists, one after the other in the order of the
\* frames, of the frames whose shape generator did not raise
RECURSIVE CompleteLists(_, _, _)
CompleteLists(frames, scale, attrs) ==
    IF frames = <<>> THEN <<>>
    ELSE (IF Generates(Head(frames), attrs)
          THEN shape_cgo(Head(frames), snfg_shapes[Head(frames).resn][1],
                         snfg_shapes[Head(frames).resn][2], scale)
          ELSE <<>>)
         \o CompleteLists(Tail(frames), scale, attrs)

\* the lists the last call handed to the sink under a name
LoadedUnder(name) ==
    SelectSeq(last.ops, LAMBDA op : op[1] = "load_cgo" /\ op[2] = name)

C3_EmptyResultNoPrimary ==
    (last # NoCall /\ last.cgo_objects = <<>>) =>
        cgo_name_of(last.selection) \notin DOMAIN sink

\* C4: a call repeated with the same selection, scale and debug_axes over an
\* unchanged structure produces the same two lists, and the sink then holds
\* under each name the call loaded exactly one object, the list of this call.
C4_RepeatReplaces ==
    (last # NoCall /\ last.repeat) =>
        /\ last.cgo_objects = last.before[1]
        /\ last.debug_cgo_objects = last.before[2]
        /\ \A name \in {cgo_name_of(last.selection), debug_cgo_name_of(last.selection)} :
              LoadedUnder(name) # <<>> =>
                  /\ name \in DOMAIN sink
                  /\ Len(LoadedUnder(name)) = 1
                  /\ sink[name] = <<LoadedUnder(name)[1][3]>>
        /\ last.cgo_objects # <<>> =>
              LoadedUnder(cgo_name_of(last.selection))[1][3] = last.cgo_objects
        /\ (last.debug_axes /\ last.debug_cgo_objects # <<>>) =>
              LoadedUnder(debug_cgo_name_of(last.selection))[1][3] = last.debug_cgo_objects

\* a repeated call that loaded both lists
C4_Witness ==
    /\ last # NoCall
    /\ last.repeat
    /\ last.cgo_objects # <<>>
    /\ last.debug_cgo_objects # <<>>
    /\ sink[cgo_name_of(last.selection)] = <<last.cgo_objects>>
    /\ sink[debug_cgo_name_of(last.selection)] = <<last.debug_cgo_objects>>

\* C5: a residue whose atoms do not include C4 gets exactly the default
\* basis (1,0,0), (0,1,0), (0,0,1), whatever other atoms it has.
C5_NoC4DefaultBasis ==
    pc = "done" =>
        \A i \in 1..Len(orient) :
            "C4" \notin RingNamesOf(structure, FrameKey(i)) => HasDefaultAxes(orient[i])

\* a residue with three or more ring atoms, none of them C4, got its frame
C5_Witness ==
    /\ pc = "done"
    /\ \E i \in 1..Len(orient) :
          /\ "C4" \notin RingNamesOf(structure, FrameKey(i))
          /\ Cardinality(RingNamesOf(structure, FrameKey(i))) >= 3
          /\ HasDefaultAxes(orient[i])

\* C6: every frame the estimator returns is right-handed:
\* dot(cross(x_axis, y_axis), z_axis) is positive, and equal to 1.
C6_RightHanded ==
    pc = "done" =>
        \A i \in 1..Len(orient) :
            /\ Triple(orient[i]) > 0
            /\ Triple(orient[i]) * Triple(orient[i])
                  = orient[i].x_axis.q * orient[i].y_axis.q * orient[i].z_axis.q

\* a frame of the near-parallel path: the plane normal lies along a computed Z
C6_Witness ==
    /\ pc = "done"
    /\ \E i \in 1..Len(orient) :
          /\ "C4" \in RingNamesOf(structure, FrameKey(i))
          /\ Cardinality(RingNamesOf(structure, FrameKey(i))) >= 3
          /\ orient[i].z_axis # default_z
          /\ AbsDotAbove(plane_normal_of(residue_atoms(structure, FrameKey(i)), svdSign),
                         orient[i].z_axis, 199, 200)
          /\ Triple(orient[i]) > 0

\* C7: for a residue with at least three ring atoms the three axes are
\* pairwise orthogonal and each of unit length.
C7_Orthonormal ==
    pc = "done" =>
        \A i \in 1..Len(orient) :
            Cardinality(RingNamesOf(structure, FrameKey(i))) >= 3 =>
                LET f == orient[i]
                IN  /\ Dot3(f.x_axis.d, f.y_axis.d) = 0
                    /\ Dot3(f.y_axis.d, f.z_axis.d) = 0
                    /\ Dot3(f.z_axis.d, f.x_axis.d) = 0
                    /\ IsUnit(f.x_axis) /\ IsUnit(f.y_axis) /\ IsUnit(f.z_axis)

\* a frame of the path where the center and C4 coincide, with axes that are
\* not the default ones
C7_Witness ==
    /\ pc = "done"
    /\ \E i \in 1..Len(orient) :
          LET ra == residue_atoms(structure, FrameKey(i))
          IN  /\ "C4" \in DOMAIN ra
              /\ Cardinality(DOMAIN ra) >= 3
              /\ orient[i].center = ra["C4"]
              /\ orient[i].x_axis # default_x
              /\ IsUnit(orient[i].x_axis)

\* C8: normalize_vector returns exactly (0,0,1) for a vector of norm below
\* 1e-9, the zero vector included, and the vector divided by its norm (the
\* unit vector of the same direction) otherwise.
C8_NormalizeFallback ==
    pc = "done" =>
        IF NormBelow(vin, 9)
        THEN vout = default_z
        ELSE IsUnit(vout) /\ SameDirection(vout, vin)

\* a vector that is not zero, of norm below 1e-9, was given the fallback
C8_Witness ==
    /\ pc = "done"
    /\ vin.d # Zero3
    /\ vin.d[3] = 0
    /\ NormBelow(vin, 9)
    /\ vout = default_z

\* the frames of residues whose name is a key of the table
KeyFrames(frames) == SelectSeq(frames, LAMBDA f : f.resn \in DOMAIN snfg_shapes)

\* C9: a call over a selection in which no residue name is a key of the table
\* ends without raising and loads nothing, under either name.
C9_NoKeyNoLoad ==
    (last # NoCall /\ \A key \in last.selected : NameOf(key) \notin DOMAIN snfg_shapes) =>
        /\ last.raised = <<>>
        /\ LoadedUnder(cgo_name_of(last.selection)) = <<>>
        /\ LoadedUnder(debug_cgo_name_of(last.selection)) = <<>>
        /\ last.ops = <<>>

\* the host's selection matched a residue named "man" (ignore_case), the
\* estimator returned its frame, and nothing was loaded
C9_Witness ==
    /\ last # NoCall
    /\ last.selected # {}
    /\ \A key \in last.selected : NameOf(key) \notin DOMAIN snfg_shapes
    /\ last.frames # <<>>
    /\ last.debug_axes
    /\ last.ops = <<>>

\* C10: every primitive of the primary list and of the debug list comes from
\* a residue whose name is a key of the table; a frame whose name is not a
\* key adds nothing to either list.
C10_OnlyKeyResidues ==
    last # NoCall =>
        /\ \A i \in 1..Len(last.from) : last.from[i] \in DOMAIN snfg_shapes
        /\ \A i \in 1..Len(last.debug_from) : last.debug_from[i] \in DOMAIN snfg_shapes
        /\ LET acc == render_loop(EmptyAcc, KeyFrames(last.frames), last.scale,
                                  last.debug_axes, cgoAttrs)
           IN  /\ last.cgo_objects = acc.cgo_objects
               /\ last.debug_cgo_objects = acc.debug_cgo_objects

\* a call with a frame whose name is not a key, next to a residue that was drawn
C10_Witness ==
    /\ last # NoCall
    /\ \E i \in 1..Len(last.frames) : last.frames[i].resn \notin DOMAIN snfg_shapes
    /\ last.cgo_objects # <<>>
    /\ last.debug_cgo_objects # <<>>

-----------------------------------------------------------------------------
(* Properties of the loop body and of the shape generators *)

\* the shape kinds the dispatch of lines 538-552 tests for
KnownKinds ==
    {"sphere", "star", "cone", "cube", "diamond", "half_diamond", "half_diamond_reverse"}

\* the frame, and the list the pass of the loop body appended for it
TheFrame == orient[1]
TheList == vout.cgo_objects

DerivedNames(selection) == {cgo_name_of(selection), debug_cgo_name_of(selection)}

\* C12: a render call leaves the host's structure as it is, and what it does
\* to the sink is a sequence of delete and load operations on the two derived
\* names: every object under another name is after the call what it was
\* before, and no object appears under another name.
C12_OnlyDerivedNames ==
    [][ncalls' # ncalls =>
          /\ structure' = structure
          /\ \A i \in 1..Len(last'.ops) :
                /\ last'.ops[i][1] \in {"delete", "load_cgo"}
                /\ last'.ops[i][2] \in DerivedNames(last'.selection)
          /\ \A name \in (DOMAIN sink \cup DOMAIN sink') \ DerivedNames(last'.selection) :
                /\ name \in DOMAIN sink
                /\ name \in DOMAIN sink'
                /\ sink'[name] = sink[name]]_vars

\* a second call, with another selection, loaded both its objects beside the
\* two objects of the first call, which are as they were
C12_Witness ==
    /\ last # NoCall
    /\ last.n = 2
    /\ Cardinality(DOMAIN last.sink_before \ DerivedNames(last.selection)) = 2
    /\ \A name \in DOMAIN last.sink_before \ DerivedNames(last.selection) :
          name \in DOMAIN sink /\ sink[name] = last.sink_before[name]
    /\ DerivedNames(last.selection) \subseteq DOMAIN sink
    /\ LoadedUnder(debug_cgo_name_of(last.selection)) # <<>>
    /\ structure # <<>>

\* the three axes of a frame and their colours, in the order X, Y, Z
AxesOf(f) == <<f.x_axis, f.y_axis, f.z_axis>>
AxisColors == << <<255, 0, 0>>, <<0, 255, 0>>, <<0, 0, 255>> >>

\* list is three cylinders, the k-th from the center of f to the center plus
\* the k-th axis times 1.5 * 4 * scale Angstrom (scale in tenths: 360 * scale
\* units of length), of radius 0.1 * scale, in the k-th colour at both ends
IsAxesList(list, f, scale) ==
    /\ Len(list) = 3
    /\ \A k \in 1..3 :
          LET u == Fixed(AxesOf(f)[k])
              operands == list[k][2]
          IN  /\ list[k][1] = "CYLINDER"
              /\ Len(operands) = 13
              /\ SubSeq(operands, 1, 3) = f.center
              /\ \A i \in 1..3 :
                     operands[3 + i] = f.center[i] + RoundDiv(u[i] * 360 * scale, MatUnit)
              /\ operands[7] = 6 * scale
              /\ SubSeq(operands, 8, 10) = AxisColors[k]
              /\ SubSeq(operands, 11, 13) = AxisColors[k]

NoCylinderIn(list) == \A i \in 1..Len(list) : list[i][1] # "CYLINDER"

SelectedAtoms == SelectSeq(structure, LAMBDA a : selects(last.selection, a))

\* the selected atoms are the six ring atoms of one residue named MAN
OneManRing ==
    /\ Len(SelectedAtoms) = 6
    /\ {SelectedAtoms[i].name : i \in 1..6} = {"C1", "C2", "C3", "C4", "C5", "O5"}
    /\ \A i \in 1..6 : res_key(SelectedAtoms[i]) = res_key(SelectedAtoms[1])
    /\ SelectedAtoms[1].resn = "MAN"

\* the sum of the coordinates of the selected atoms
RECURSIVE CoordSum(_)
CoordSum(atoms) ==
    IF atoms = <<>> THEN <<0, 0, 0>>
    ELSE <<Head(atoms).coord[1] + CoordSum(Tail(atoms))[1],
           Head(atoms).coord[2] + CoordSum(Tail(atoms))[2],
           Head(atoms).coord[3] + CoordSum(Tail(atoms))[3]>>

\* the load operations of the last call
Loads == SelectSeq(last.ops, LAMBDA op : op[1] = "load_cgo")

\* C14: a call with the default arguments (no debug axes) over a selection
\* that is one residue MAN with the atoms C1-C5 and O5 and nothing else loads
\* exactly one list: one colour set of SNFG green (0, 166/255, 81/255), then
\* one sphere at the mean of the six coordinates.
C14_OneManSphere ==
    (last # NoCall /\ ~dirty /\ ~last.debug_axes /\ OneManRing) =>
        /\ Len(Loads) = 1
        /\ Loads[1][2] = cgo_name_of(last.selection)
        /\ Len(Loads[1][3]) = 2
        /\ Loads[1][3][1] = <<"COLOR", <<0, 166, 81>>>>
        /\ Loads[1][3][2][1] = "SPHERE"
        /\ \A i \in 1..3 : 6 * Loads[1][3][2][2][i] = CoordSum(SelectedAtoms)[i]
        /\ sink[cgo_name_of(last.selection)] = <<Loads[1][3]>>

\* such a call was made, in a structure that also holds a water
C14_Witness ==
    /\ last # NoCall
    /\ ~dirty
    /\ ~last.debug_axes
    /\ OneManRing
    /\ Len(structure) > 6
    /\ Len(Loads) = 1
    /\ Loads[1][3][2][1] = "SPHERE"

\* the rotation matrix of the frame
TheMatrix == get_transformation_matrix(TheFrame.x_axis, TheFrame.y_axis, TheFrame.z_axis)

\* the radius the dispatch hands to cgo_cube: 0.55 * 4 * scale Angstrom
CubeRadius == (55 * 4 * vin.scale * LenUnit) \div 1000

\* the unit vector along local axis a, with sign sg
LocalAxis(a, sg) == Vec([i \in 1..3 |-> IF i = a THEN sg ELSE 0])

\* the corners of the cube of half side r on the face of local axis a, sign sg
FaceCorners(a, sg, r) ==
    {c \in {-r, r} \X {-r, r} \X {-r, r} : c[a] = sg * r}

\* the seven tokens of face group g (0-based) of a list that starts with a
\* colour set
CubeGroup(list, g) == SubSeq(list, 2 + 7 * g, 8 + 7 * g)

\* the group is begin, one normal, four vertices, end, and the vertices are the
\* four corners of the face whose outward normal is the declared one
IsCubeFace(group, a, sg, r) ==
    /\ group[1][1] = "BEGIN"
    /\ group[2] = NORMAL(transform_normals(<<LocalAxis(a, sg)>>, TheMatrix)[1])
    /\ \A k \in 3..6 : group[k][1] = "VERTEX"
    /\ group[7][1] = "END"
    /\ Cardinality({group[k][2] : k \in 3..6}) = 4
    /\ {group[k][2] : k \in 3..6}
          = {transform_vertex(c, TheFrame.center, TheMatrix) : c \in FaceCorners(a, sg, r)}

\* C15: cgo_cube emits exactly 6 begin/end groups, each with one normal and
\* then four vertices, and the four vertices of a group are the four distinct
\* corners of the face of the cube perpendicular to the group's normal: in
\* local coordinates their coordinate along the normal's axis is +r or -r with
\* the normal's sign.
C15_CubeFaces ==
    (pc = "dispatched" /\ vin.shape = "cube" /\ TheList # <<>>) =>
        /\ Len(TheList) = 43
        /\ TheList[1][1] = "COLOR"
        /\ Cardinality({i \in 1..Len(TheList) : TheList[i][1] = "BEGIN"}) = 6
        /\ Cardinality({i \in 1..Len(TheList) : TheList[i][1] = "END"}) = 6
        /\ Cardinality({i \in 1..Len(TheList) : TheList[i][1] = "NORMAL"}) = 6
        /\ Cardinality({i \in 1..Len(TheList) : TheList[i][1] = "VERTEX"}) = 24
        /\ \A g \in 0..5 :
              \E a \in 1..3, sg \in {1, -1} :
                  IsCubeFace(CubeGroup(TheList, g), a, sg, CubeRadius)
        /\ Cardinality({CubeGroup(TheList, g)[2] : g \in 0..5}) = 6

\* a cube in a frame whose axes are not along the grid
C15_Witness ==
    /\ pc = "dispatched"
    /\ vin.shape = "cube"
    /\ TheFrame.x_axis.q > 1
    /\ TheFrame.center # Zero3
    /\ Len(TheList) = 43
    /\ IsCubeFace(CubeGroup(TheList, 5), 3, -1, CubeRadius)

\* the radius the dispatch hands to cgo_star: 4 * scale Angstrom
StarRadius == (4 * vin.scale * LenUnit) \div 10

\* the fifteen tokens of fan h (0 the front, 1 the back) of a list that starts
\* with a colour set
StarGroup(list, h) == SubSeq(list, 2 + 15 * h, 16 + 15 * h)

\* the group is a triangle fan with one normal along sg * local Y, the fan
\* center, then outer[i], inner[i] for i = 0..4 and outer[0] again
IsStarFan(group, sg, outer, inner) ==
    /\ group[1] = <<"BEGIN", <<"TRIANGLE_FAN">>>>
    /\ group[2] = NORMAL(transform_normals(<<LocalAxis(2, sg)>>, TheMatrix)[1])
    /\ \A k \in 3..14 : group[k][1] = "VERTEX"
    /\ group[15][1] = "END"
    /\ group[3][2] = transform_vertex(<<0, sg * ((6 * StarRadius) \div 10), 0>>,
                                      TheFrame.center, TheMatrix)
    /\ \A i \in 0..4 : /\ group[4 + 2 * i][2] = outer[i + 1]
                        /\ group[5 + 2 * i][2] = inner[i + 1]
    /\ group[14][2] = outer[1]
    /\ group[14] = group[4]

DiamondRadius == (75 * 4 * vin.scale * LenUnit) \div 1000

\* face j (1..8) of a half diamond list: its normal and three vertices, and
\* the colour set before them
HalfFace(list, j) == SubSeq(list, 3 + 5 * (j - 1), 6 + 5 * (j - 1))
HalfFaceColor(list, j) == list[2 + 5 * (j - 1)]

\* the other one of the two half diamond kinds
OtherHalfKind(shape) ==
    IF shape = "half_diamond" THEN "half_diamond_reverse" ELSE "half_diamond"

\* C17: for the same center, size and basis cgo_half_diamond emits the 8
\* faces of cgo_diamond, the same normals and vertex triples in the same
\* order, 4 of them in one colour and 4 in the other; the kind
\* half_diamond_reverse gives every face the other one of the two colours
\* (the entry's colour and white) than the kind half_diamond.
C17_HalfDiamondFaces ==
    (pc = "dispatched" /\ vin.shape \in {"half_diamond", "half_diamond_reverse"}
        /\ TheList # <<>>) =>
        LET diamond == cgo_diamond(TheFrame.center, DiamondRadius, vin.color,
                                   TheFrame.x_axis, TheFrame.y_axis, TheFrame.z_axis)
            other == shape_cgo(TheFrame, vin.color, OtherHalfKind(vin.shape), vin.scale)
            Both == {COLOR(vin.color), COLOR(<<255, 255, 255>>)}
        IN  /\ Len(TheList) = 42
            /\ TheList[1][1] = "BEGIN" /\ TheList[42][1] = "END"
            /\ Len(diamond) = 35
            /\ \A j \in 1..8 :
                  /\ HalfFace(TheList, j) = SubSeq(diamond, 3 + 4 * (j - 1), 6 + 4 * (j - 1))
                  /\ HalfFaceColor(TheList, j) \in Both
                  /\ HalfFaceColor(other, j) \in Both
                  /\ HalfFaceColor(other, j) # HalfFaceColor(TheList, j)
                  /\ HalfFace(other, j) = HalfFace(TheList, j)
            /\ \A c \in Both :
                  Cardinality({j \in 1..8 : HalfFaceColor(TheList, j) = c}) = 4

\* a reversed half diamond: its first face has the entry's colour, where the
\* half diamond has white
C17_Witness ==
    /\ pc = "dispatched"
    /\ vin.shape = "half_diamond_reverse"
    /\ TheFrame.x_axis.q > 1
    /\ Len(TheList) = 42
    /\ HalfFaceColor(TheList, 1) = COLOR(vin.color)
    /\ HalfFaceColor(TheList, 2) = COLOR(<<255, 255, 255>>)

\* face j (1..8) of a diamond list: its normal and its three vertices
DiamondFace(list, j) == SubSeq(list, 3 + 4 * (j - 1), 6 + 4 * (j - 1))

\* the face is the normal along (sx, sy, sz) and, first, the Z vertex of sign
\* sz, then the Y vertex of sign sy and the X vertex of sign sx in some order
FaceSignsMatch(face, r) ==
    \E sx \in {1, -1}, sy \in {1, -1}, sz \in {1, -1} :
        /\ face[1] = NORMAL(transform_normals(<<normalize_vector(Vec(<<sx, sy, sz>>))>>,
                                              TheMatrix)[1])
        /\ face[2] = VERTEX(transform_vertex(<<0, 0, sz * r>>, TheFrame.center, TheMatrix))
        /\ {face[3], face[4]}
              = { VERTEX(transform_vertex(<<0, sy * r, 0>>, TheFrame.center, TheMatrix)),
                  VERTEX(transform_vertex(<<sx * r, 0, 0>>, TheFrame.center, TheMatrix)) }

\* the sign of dot((v2 - v1) x (v3 - v1), n) for the three vertices and the
\* declared normal n of the face (the cross product is taken in units of
\* 1000 squared length units)
FaceWinding(face) ==
    Sgn(Dot3(Div3(Cross3(Sub3(face[3][2], face[2][2]), Sub3(face[4][2], face[2][2])), 1000),
             <<face[1][2][1], face[1][2][2], face[1][2][3]>>))

\* C18: each of the 8 faces of cgo_diamond is one Z, one Y and one X vertex
\* of the octahedron with the signs of the components of the face's normal,
\* and its vertex order is outward-facing: (v2 - v1) x (v3 - v1) has a
\* positive dot product with the declared normal.
C18_DiamondOutward ==
    (pc = "dispatched" /\ vin.shape = "diamond" /\ TheList # <<>>) =>
        /\ Len(TheList) = 35
        /\ \A j \in 1..8 :
              /\ FaceSignsMatch(DiamondFace(TheList, j), DiamondRadius)
              /\ FaceWinding(DiamondFace(TheList, j)) = 1

\* C19: transform_vertices with the matrix get_transformation_matrix builds
\* from the basis (1,0,0), (0,1,0), (0,0,1) and with the center (0,0,0)
\* returns the vertices it was given: the same number, in the same order,
\* unchanged.
C19_IdentityTransform ==
    (/\ pc = "transformed"
     /\ TheFrame.center = <<0, 0, 0>>
     /\ TheFrame.x_axis = Vec(<<1, 0, 0>>)
     /\ TheFrame.y_axis = Vec(<<0, 1, 0>>)
     /\ TheFrame.z_axis = Vec(<<0, 0, 1>>)) =>
        /\ Len(vout.transformed) = Len(vout.vertices)
        /\ \A k \in 1..Len(vout.vertices) : vout.transformed[k] = vout.vertices[k]

\* the 24 local vertices of a cube went through the identity transformation
C19_Witness ==
    /\ pc = "transformed"
    /\ TheFrame.center = <<0, 0, 0>>
    /\ TheFrame.x_axis = Vec(<<1, 0, 0>>)
    /\ TheFrame.y_axis = Vec(<<0, 1, 0>>)
    /\ TheFrame.z_axis = Vec(<<0, 0, 1>>)
    /\ Len(vout.vertices) = 24
    /\ vout.vertices[1][1] # vout.vertices[1][3]
    /\ vout.transformed = vout.vertices

\* C20: for a residue with at least 3 required atoms whose center and C4
\* coincide (distance below 1e-6) the estimator falls back to the default
\* basis entirely: the axes are exactly (1,0,0), (0,1,0), (0,0,1), whatever
\* the plane atoms are.
C20_CoincidentC4DefaultBasis ==
    pc = "done" =>
        \A i \in 1..Len(orient) :
            LET ra == residue_atoms(structure, FrameKey(i))
            IN  (/\ Cardinality(DOMAIN ra) >= 3
                 /\ "C4" \in DOMAIN ra
                 /\ NormBelow(LenVec(Sub3(ra["C4"], orient[i].center)), 6)) =>
                    HasDefaultAxes(orient[i])

-----------------------------------------------------------------------------
(* Further properties of the frame estimator *)

\* the ring atoms (C1-C5, O5) of a residue, as the structure lists them
RingAtomsOf(key) ==
    SelectSeq(structure,
              LAMBDA a : res_key(a) = key /\ a.name \in {"C1", "C2", "C3", "C4", "C5", "O5"})

\* C21: for a residue with 1 or 2 of the required atoms C1-C5/O5 the frame has
\* the default basis and its center is the mean of the required atoms present;
\* with 3 or more the center is the mean of all required atoms present, O5
\* included, whichever way the axes come out.
C21_CenterIsMean ==
    pc = "done" =>
        \A i \in 1..Len(orient) :
            LET ra == RingAtomsOf(FrameKey(i))
            IN  /\ Len(ra) >= 1
                /\ Scale3(Len(ra), orient[i].center) = CoordSum(ra)
                /\ Len(ra) \in {1, 2} => HasDefaultAxes(orient[i])

\* a residue of two ring atoms got the point between them, away from the
\* origin; and a residue with O5 and computed axes got the mean with O5
C21_Witness ==
    /\ pc = "done"
    /\ \E i \in 1..Len(orient) :
          /\ Len(RingAtomsOf(FrameKey(i))) = 2
          /\ orient[i].center # Zero3
          /\ orient[i].center # RingAtomsOf(FrameKey(i))[1].coord
          /\ HasDefaultAxes(orient[i])
    /\ \E i \in 1..Len(orient) :
          /\ Len(RingAtomsOf(FrameKey(i))) >= 4
          /\ "O5" \in RingNamesOf(structure, FrameKey(i))
          /\ ~HasDefaultAxes(orient[i])
          /\ Scale3(Len(RingAtomsOf(FrameKey(i))), orient[i].center)
                = CoordSum(RingAtomsOf(FrameKey(i)))

\* the coordinates of the plane atoms (C1-C5) of a residue
PlanePoints(key) ==
    LET ra == SelectSeq(RingAtomsOf(key), LAMBDA a : a.name # "O5")
    IN  [i \in 1..Len(ra) |-> ra[i].coord]

\* every three of the points lie on one line (or coincide)
Collinear(pts) ==
    \A i, j, k \in 1..Len(pts) :
        Cross3(Sub3(pts[j], pts[i]), Sub3(pts[k], pts[i])) = Zero3

\* n is a unit vector at right angles to every difference of two of the
\* points: the direction of the singular value zero of their centered matrix
IsPlaneNormal(n, pts) ==
    /\ IsUnit(n)
    /\ \A i, j \in 1..Len(pts) : Dot3(n.d, Sub3(pts[j], pts[i])) = 0

\* C22: the plane normal used for a residue is global Z (0,0,1) whenever fewer
\* than 3 of the plane atoms C1-C5 are present or the present ones are
\* collinear or coincident; only with at least 3 non-collinear plane atoms is
\* it the smallest-singular-value direction of the centered coordinates.
C22_PlaneNormal ==
    pc = "done" =>
        \A i \in 1..Len(orient) :
            vout[i] # <<>> =>
                IF Len(PlanePoints(FrameKey(i))) < 3 \/ Collinear(PlanePoints(FrameKey(i)))
                THEN vout[i] = default_z
                ELSE IsPlaneNormal(vout[i], PlanePoints(FrameKey(i)))

\* a residue with three or more plane atoms on one line was given Z, and the
\* residue beside it, with three plane atoms that span a plane, its normal
C22_Witness ==
    /\ pc = "done"
    /\ Len(orient) = 2
    /\ Len(PlanePoints(FrameKey(1))) >= 3
    /\ Collinear(PlanePoints(FrameKey(1)))
    /\ PlanePoints(FrameKey(1))[1] # PlanePoints(FrameKey(1))[2]
    /\ vout[1] = default_z
    /\ Len(PlanePoints(FrameKey(2))) = 3
    /\ ~Collinear(PlanePoints(FrameKey(2)))
    /\ vout[2] # default_z
    /\ IsPlaneNormal(vout[2], PlanePoints(FrameKey(2)))

\* a is the unit vector along the cross product of u and v, and that cross
\* product is not near zero (normalize_vector did not take its fallback)
IsUnitCross(a, u, v) ==
    /\ ~NormBelow(CrossV(u, v), 9)
    /\ IsUnit(a)
    /\ SameDirection(a, CrossV(u, v))

\* the arbitrary vector of the near-parallel branch
Arbitrary(z_axis) ==
    IF AbsDotAbove(Vec(<<1, 0, 0>>), z_axis, 99, 100)
    THEN Vec(<<0, 1, 0>>) ELSE Vec(<<1, 0, 0>>)

RingOnly(atoms) ==
    SelectSeq(atoms, LAMBDA a : a.name \in {"C1", "C2", "C3", "C4", "C5", "O5"})

\* C24: the frames depend only on the atoms named C1-C5 and O5: two atom sets
\* that agree on those atoms, in keys, coordinates and order, give the same
\* list of frames.  Every atom set agrees on those atoms with the set of its
\* ring atoms alone, so it must give the frames of that set.
C24_OnlyRingAtomsCount ==
    pc = "done" => orient = get_residue_orientation(RingOnly(structure), svdSign)

\* a structure with other atoms, one of them between the ring atoms of its
\* residue, gave the two frames of its ring atoms
C24_Witness ==
    /\ pc = "done"
    /\ Len(orient) = 2
    /\ \E i \in 2..(Len(structure) - 1) :
          /\ structure[i].name = "C6"
          /\ structure[i + 1].name = "C2"
          /\ res_key(structure[i + 1]) = res_key(structure[i])
    /\ Len(RingOnly(structure)) < Len(structure)
    /\ orient = get_residue_orientation(RingOnly(structure), svdSign)

-----------------------------------------------------------------------------
(* Further properties of render_snfg and of the shape generators *)

\* C25: in every render call that emits an object, the delete of a derived
\* name comes before the load of that name in the same call, with no other
\* operation on the name between them; for the primary name and for the
\* debug-axes name, on every path that loads them.
C25_DeleteBeforeLoad ==
    last # NoCall =>
        \A k \in 1..Len(last.ops) :
            last.ops[k][1] = "load_cgo" =>
                /\ k > 1
                /\ last.ops[k - 1][1] = "delete"
                /\ last.ops[k - 1][2] = last.ops[k][2]
                /\ last.ops[k][2] \in {cgo_name_of(last.selection),
                                       debug_cgo_name_of(last.selection)}

\* a call loaded both objects over the two objects an earlier call had left
C25_Witness ==
    /\ last # NoCall
    /\ Len(last.ops) = 4
    /\ last.ops[2][1] = "load_cgo" /\ last.ops[2][2] = cgo_name_of(last.selection)
    /\ last.ops[4][1] = "load_cgo" /\ last.ops[4][2] = debug_cgo_name_of(last.selection)
    /\ cgo_name_of(last.selection) \in DOMAIN last.sink_before
    /\ debug_cgo_name_of(last.selection) \in DOMAIN last.sink_before
    /\ Len(sink[debug_cgo_name_of(last.selection)]) = 1

\* face g (0-based) of a cube list: its normal and the first three vertices
\* of its strip, in emitted order
CubeFaceStart(list, g) == SubSeq(list, 3 + 7 * g, 6 + 7 * g)

\* C26: the six faces of cgo_cube all wind the same way relative to their
\* declared normals: the sign of dot((v2 - v1) x (v3 - v1), normal) over the
\* first three vertices of each strip is the same for every face.
C26_CubeWindingUniform ==
    (pc = "dispatched" /\ vin.shape = "cube" /\ TheList # <<>>) =>
        \A g \in 0..5 :
            FaceWinding(CubeFaceStart(TheList, g)) = FaceWinding(CubeFaceStart(TheList, 0))

\* C27: within one call the debug axes are appended only for residues whose
\* shape was appended to the primary list: when the debug list is not empty
\* the primary list is not empty, and the debug-axes object is never loaded
\* in a call that did not load the primary object.
C27_AxesOnlyWithShape ==
    last # NoCall =>
        /\ Len(last.debug_from) <= Len(last.from)
        /\ \A i \in 1..Len(last.debug_from) :
              \E j \in i..Len(last.from) : last.from[j] = last.debug_from[i]
        /\ last.debug_cgo_objects # <<>> => last.cgo_objects # <<>>
        /\ LoadedUnder(debug_cgo_name_of(last.selection)) # <<>> =>
              LoadedUnder(cgo_name_of(last.selection)) # <<>>

\* a call with debug axes in which the generator of the first residue raised:
\* the second residue alone is in both lists, and both objects were loaded
C27_Witness ==
    /\ last # NoCall
    /\ last.debug_axes
    /\ Len(last.frames) = 2
    /\ last.raised = <<last.frames[1].resn>>
    /\ last.from = <<last.frames[2].resn>>
    /\ last.debug_from = last.from
    /\ LoadedUnder(debug_cgo_name_of(last.selection)) # <<>>
    /\ LoadedUnder(cgo_name_of(last.selection)) # <<>>

\* C28: a call with debug_axes false performs no sink operation on the
\* debug-axes name snfg_<sanitized selection>_axes: an axes object left by an
\* earlier call with debug_axes true is neither deleted nor replaced.
C28_NoAxesOpWithoutDebug ==
    (last # NoCall /\ ~last.debug_axes) =>
        /\ \A k \in 1..Len(last.ops) : last.ops[k][2] # debug_cgo_name_of(last.selection)
        /\ debug_cgo_name_of(last.selection) \in DOMAIN sink
              <=> debug_cgo_name_of(last.selection) \in DOMAIN last.sink_before
        /\ debug_cgo_name_of(last.selection) \in DOMAIN sink =>
              sink[debug_cgo_name_of(last.selection)]
                 = last.sink_before[debug_cgo_name_of(last.selection)]

\* a call without debug axes loaded the primary object and left the axes
\* object of the call before it in the sink
C28_Witness ==
    /\ last # NoCall
    /\ ~last.debug_axes
    /\ last.n = 2
    /\ LoadedUnder(cgo_name_of(last.selection)) # <<>>
    /\ debug_cgo_name_of(last.selection) \in DOMAIN last.sink_before
    /\ debug_cgo_name_of(last.selection) \in DOMAIN sink
    /\ sink[debug_cgo_name_of(last.selection)] = <<last.before[2]>>
    /\ last.before[2] # <<>>

-----------------------------------------------------------------------------
(* Properties of the window registry and of the bridge *)

\* the windows on screen
VisibleWindows == {w \in 1..Len(windows) : windows[w].visible}

\* C29: over any sequence of run_plugin_gui calls and window closes the
\* registry holds at most one window, under the key 'html_interface_main';
\* a registered window is one whose construction succeeded (its web view is
\* not None) and that has not been closed; and run_plugin_gui called while
\* the registered window is visible constructs no window and only raises
\* the one there is.
C29_SingleInstance ==
    /\ DOMAIN INSTANCES \subseteq {"html_interface_main"}
    /\ \A k \in DOMAIN INSTANCES :
          /\ INSTANCES[k] \in 1..Len(windows)
          /\ windows[INSTANCES[k]].webView
          /\ ~windows[INSTANCES[k]].raised
          /\ ~windows[INSTANCES[k]].closed
    /\ VisibleWindows = {INSTANCES[k] : k \in DOMAIN INSTANCES}
    /\ (event.op = "run_plugin_gui" /\ event.visible) =>
          /\ Len(windows) = event.windows
          /\ INSTANCES = event.instances
          /\ event.raised = INSTANCES["html_interface_main"]

\* after a window that failed and a window that was closed, the menu entry
\* was chosen again while the third window was on screen
C29_Witness ==
    /\ event.op = "run_plugin_gui"
    /\ event.visible
    /\ Len(windows) = 3
    /\ \E w \in 1..3 : windows[w].closed
    /\ \E w \in 1..3 : ~windows[w].closed /\ ~windows[w].webView
    /\ event.raised = 3
    /\ windows[3].visible

\* C30: whenever the page calls the slot executeReGlyco, the bridge's
\* base64_encoded_data has been set by the load-finished handler: in every
\* interleaving of page-load events and calls over the channel the
\* assignment of _on_load_finished precedes the read of executeReGlyco.
C30_DataSetBeforeRead ==
    event.op = "executeReGlyco" => event.has_data

====
